---- MODULE Spec2Model ----
(***************************************************************************)
(* A model of the Scraper of agent-twitter-client (src/src/scraper.ts):    *)
(* the session held in auth / authTrends, the cursor-driven iterator       *)
(* getUserTweetsIterator, and the chunked media upload uploadMedia with    *)
(* its status poll loop checkMediaProcessingStatus.                        *)
(***************************************************************************)
EXTENDS Integers, Sequences, FiniteSets, TLC

\* ------------------------------------------------------------------ bounds
\* Largest number of whole chunks below a modelled media length.
MaxChunks == 3

\* Authorizers one Scraper creates in a run (its two first guest ones
\* included).
MaxAuths == 6
\* Longest cookie list passed to setCookies.
MaxCookies == 2
\* Subtasks the server asks for in one login negotiation before it ends it.
MaxSteps == 2

\* Longest sequence of tweets passed to a query, returned as a timeline or
\* held by a conversation.
MaxTweets == 3

\* Largest cap (maxTweets) below the server page cap that a run is given.
MaxCap == 3
\* Number of responses of one run that carry a non-empty next cursor: the
\* server returns an empty next cursor from then on.
MaxCursors == 2

\* ------------------------------------------------------- program constants
\* scraper.ts:310  if (maxTweets > 200) maxTweets = 200
PageCap == 200
MiB == 1024 * 1024
\* scraper.ts:773  const CHUNK_SIZE = 5 * 1024 * 1024
CHUNK_SIZE == 5 * MiB
\* scraper.ts:845  const maxAttempts = 10
maxAttempts == 10
\* scraper.ts:874  (processingInfo.check_after_secs || 5)
DefaultWaitSecs == 5

VARIABLES
    \* ---- session (Scraper.auth, Scraper.authTrends and the authorizers)
    auth,          \* id of the authorizer in this.auth
    authTrends,    \* id of the authorizer in this.authTrends
    auths,         \* the authorizers in use, by id: kind, guest token, jar
    nextId,        \* id of the next authorizer to be constructed
    ses,           \* per caller: the session call in progress or last ended
    exported,      \* what the last getCookies() returned, and from whom
    \* ---- getUserTweetsIterator and the server it pages through
    itPc,          \* position of the generator
    itMax,         \* maxTweets
    itRetrieved,   \* retrievedTweets
    itCursor,      \* cursor (0: undefined or the empty string)
    itPage,        \* response.tweets of the page being iterated (tweet ids)
    itNext,        \* response.next of that page
    itIdx,         \* position of the for loop in itPage
    itEmitted,     \* ids yielded so far, in order
    itFetches,     \* page requests sent so far, in order
    srvNextId,     \* id of the next tweet the server has not served yet
    srvLast,       \* next cursor of the server's previous response
    srvGiven,      \* responses so far that carried a non-empty next cursor
    itFailedAt,    \* number of the page request that failed (0: none has)
    \* ---- uploadMedia / checkMediaProcessingStatus
    upPc,          \* position of the uploadMedia call
    upMedia,       \* [isVideo, totalBytes] of the call
    upI,           \* loop variable i of the APPEND loop
    upAttempts,    \* attempts of checkMediaProcessingStatus
    upLog,         \* requests sent by the call, in order
    upInflight,    \* requests sent and not yet returned
    upWait,        \* seconds of the last setTimeout of the poll loop (-1: none)
    upOut,         \* outcome of the call
    upResps,       \* what the requests of upLog returned, in order
    upLastCa,      \* check_after_secs of the last STATUS response (-1: none)
    upErrChunk,    \* chunk number in the message of the APPEND error (-1: none)
    \* ---- the other operations (queries over tweets, writes, follows)
    call,          \* the operation in progress or last ended
    env            \* process.env.TWITTER_USERNAME

upVars == <<upPc, upMedia, upI, upAttempts, upLog, upInflight, upWait, upOut,
           upResps, upLastCa, upErrChunk>>
itVars == <<itPc, itMax, itRetrieved, itCursor, itPage, itNext, itIdx,
           itEmitted, itFetches, srvNextId, srvLast, srvGiven, itFailedAt>>
sesVars == <<auth, authTrends, auths, nextId, ses, exported>>
opVars == <<call, env>>
vars == <<auth, authTrends, auths, nextId, ses, exported,
          itPc, itMax, itRetrieved, itCursor, itPage, itNext, itIdx,
          itEmitted, itFetches, srvNextId, srvLast, srvGiven, itFailedAt,
          upPc, upMedia, upI, upAttempts, upLog, upInflight,
          upWait, upOut, upResps, upLastCa, upErrChunk, call, env>>

\* ------------------------------------------------------------------ helpers
Min(a, b) == IF a < b THEN a ELSE b

\* Math.ceil(a / b) for a >= 0, b > 0
CeilDiv(a, b) == (a + b - 1) \div b

\* ================================================================= session

Callers == {"a", "b"}
Accounts == {"A", "B"}

\* ---- cookies and the cookie jar of an authorizer
MkCookie(key, value, domain, path) ==
    [key |-> key, value |-> value, domain |-> domain, path |-> path]

AuthCookie(acct) == MkCookie("auth_token", acct, "twitter.com", "/")
Ct0Cookie == MkCookie("ct0", "x", "twitter.com", "/")
\* a cookie of the login flow, scoped to the API host
AttCookie == MkCookie("att", "f", "api.twitter.com", "/")
CookieUniverse ==
    {AuthCookie("A"), AuthCookie("B"), Ct0Cookie, AttCookie}

\* The cookie lists passed to setCookies.
CookieLists == UNION { [1..n -> CookieUniverse] : n \in 0..MaxCookies }

SameKey(c, d) == c.key = d.key /\ c.domain = d.domain /\ c.path = d.path

\* jar.setCookie(cookie, twUrl) stores a cookie only when the host of twUrl
\* is in the cookie's domain, and throws otherwise.
JarAccepts(c) == c.domain = "twitter.com"

\* The jar is a mapping from (domain, path, name): a cookie replaces the one
\* with its key, in its place, and is otherwise the newest one.
JarPut(jar, c) ==
    IF \E i \in 1..Len(jar) : SameKey(jar[i], c)
    THEN [i \in 1..Len(jar) |-> IF SameKey(jar[i], c) THEN c ELSE jar[i]]
    ELSE Append(jar, c)

JarMatches(c) == c.domain = "twitter.com" /\ c.path = "/"

\* jar.getCookies(twUrl): the cookies whose domain and path match
\* https://twitter.com, oldest first.
JarGetCookies(jar) == SelectSeq(jar, JarMatches)

HasAuthCookie(jar) ==
    \E i \in 1..Len(jar) :
        jar[i].key = "auth_token" /\ jar[i].domain = "twitter.com"

\* ---- authorizers
\* new TwitterGuestAuth(token, options): no guest token yet, an empty jar
NewGuestAuth == [kind |-> "guest", tok |-> "none", jar |-> <<>>]

\* Variant: the new user authorizer starts from the session's cookies.
NewUserAuthKeepJar == [kind |-> "user", tok |-> "none", jar |-> auths[auth].jar]

\* scraper.ts:645, 679  new TwitterUserAuth(this.token, this.getAuthOptions())
NewUserAuth == [kind |-> "user", tok |-> "none", jar |-> <<>>]

\* auths with the authorizer id set to rec
Ext(id, rec) ==
    [i \in DOMAIN auths \cup {id} |-> IF i = id THEN rec ELSE auths[i]]

\* The authorizers still referenced after a step: this.auth, this.authTrends
\* and the ones the calls in progress hold.
SetAuths(new) ==
    auths' = [i \in ({auth', authTrends'} \cup {ses'[c].local : c \in Callers})
                    \ {0} |-> new[i]]

\* auth.isLoggedIn(): true only for the authenticated variant
AuthIsLoggedIn(id) == auths[id].kind = "user"

\* scraper.ts:624-628  Scraper.isLoggedIn()
IsLoggedIn == AuthIsLoggedIn(auth) /\ AuthIsLoggedIn(authTrends)

\* scraper.ts:666-672  Scraper.getCookies()
GetCookies == JarGetCookies(auths[authTrends].jar)

\* The Scraper is as its constructor leaves it: two guest authorizers of
\* their own, without token and cookies.
IsFresh ==
    /\ auth # authTrends
    /\ auths[auth] = NewGuestAuth
    /\ auths[authTrends] = NewGuestAuth

\* ---- the calls
Snapshot ==
    [auth |-> auth, authTrends |-> authTrends, user |-> IsLoggedIn,
     fresh |-> IsFresh]

NoSnapshot ==
    [auth |-> 0, authTrends |-> 0, user |-> FALSE, fresh |-> FALSE]

IdleCall ==
    [pc |-> "idle", op |-> "none", local |-> 0, step |-> 0, acct |-> "A",
     email |-> FALSE, totp |-> FALSE, todo |-> <<>>, given |-> <<>>,
     srvFail |-> FALSE, out |-> "none", reqs |-> <<>>, before |-> NoSnapshot]

\* An outgoing request and the credentials installed on it.
Req(purpose, id, guestTok, authCookie) ==
    [purpose |-> purpose, auth |-> id, guestTok |-> guestTok,
     authCookie |-> authCookie]

\* installTo of the authorizer rec: a guest authorizer attaches its guest
\* token, a user authorizer the cookies of its jar.
ApiReq(purpose, id, rec) ==
    Req(purpose, id, rec.kind = "guest" /\ rec.tok = "fresh",
        rec.kind = "user" /\ HasAuthCookie(rec.jar))

Begin(c, op) ==
    [IdleCall EXCEPT !.op = op, !.before = Snapshot]

\* The call of caller c ends with outcome out.
End(c, out) ==
    [ses[c] EXCEPT !.pc = "idle", !.local = 0, !.out = out, !.todo = <<>>,
                   !.step = 0, !.acct = "A", !.email = FALSE, !.totp = FALSE]

\* ---------------------------------------------------------- Scraper.login

\* Variant: the new authorizer is installed before its login has run.
LoginStartInstalls(c) ==
    /\ ses[c].pc = "idle"
    /\ nextId <= MaxAuths
    /\ \E acct \in Accounts, email \in BOOLEAN, totp \in BOOLEAN :
          ses' = [ses EXCEPT ![c] =
                    [Begin(c, "login") EXCEPT
                        !.pc = "login_token", !.local = nextId,
                        !.acct = acct, !.email = email, !.totp = totp,
                        !.reqs = <<Req("guest_token", nextId, FALSE, FALSE)>>]]
    /\ nextId' = nextId + 1
    /\ auth' = nextId
    /\ authTrends' = nextId
    /\ exported' = exported
    /\ SetAuths(Ext(nextId, NewUserAuth))
    /\ UNCHANGED <<itVars, upVars, opVars>>

\* scraper.ts:645-646  a new user authorizer; its login starts by getting a
\* guest token for the negotiation.
LoginStart(c) ==
    /\ ses[c].pc = "idle"
    /\ nextId <= MaxAuths
    /\ \E acct \in Accounts, email \in BOOLEAN, totp \in BOOLEAN :
          ses' = [ses EXCEPT ![c] =
                    [Begin(c, "login") EXCEPT
                        !.pc = "login_token", !.local = nextId,
                        !.acct = acct, !.email = email, !.totp = totp,
                        !.reqs = <<Req("guest_token", nextId, FALSE, FALSE)>>]]
    /\ nextId' = nextId + 1
    /\ UNCHANGED <<auth, authTrends, exported>>
    /\ SetAuths(Ext(nextId, NewUserAuth))
    /\ UNCHANGED <<itVars, upVars, opVars>>

\* Variant: the authorizer under negotiation is kept when its login throws.
LoginThrowKeepsAuth(c, err) ==
    /\ ses' = [ses EXCEPT ![c] = End(c, err)]
    /\ auth' = ses[c].local
    /\ authTrends' = authTrends
    /\ auths' = [i \in {auth', authTrends'} |-> auths[i]]
    /\ UNCHANGED <<nextId, exported>>

\* scraper.ts:646  userAuth.login throws: the error leaves Scraper.login
\* before the assignments of 647-648.
LoginThrow(c, err) ==
    /\ ses' = [ses EXCEPT ![c] = End(c, err)]
    /\ UNCHANGED <<auth, authTrends, nextId, exported>>
    /\ SetAuths(auths)

\* The guest token request of the negotiation returns.
LoginTokenReturn(c) ==
    /\ ses[c].pc = "login_token"
    /\ \/ LoginThrow(c, "AuthBootstrapError")
       \/ /\ ses' = [ses EXCEPT ![c].pc = "login",
                                ![c].reqs = Append(@,
                                    Req("login_init", ses[c].local, TRUE, FALSE))]
          /\ UNCHANGED <<auth, authTrends, nextId, exported>>
          /\ SetAuths([auths EXCEPT ![ses[c].local].tok = "fresh"])
    /\ UNCHANGED <<itVars, upVars, opVars>>

\* What the server answers to a step of the negotiation.
LoginAnswers ==
    {"neterror", "denied", "unknown", "password", "email", "totp", "success"}

\* The input the client has for a subtask the server asks for.
HasInput(login, subtask) ==
    CASE subtask = "password" -> TRUE
      [] subtask = "email" -> login.email
      [] subtask = "totp" -> login.totp
      [] OTHER -> FALSE

\* Variant: a successful login replaces this.authTrends only.
LoginAssignTrendsOnly(c, new) ==
    /\ ses' = [ses EXCEPT ![c] = End(c, "ok")]
    /\ auth' = auth
    /\ authTrends' = ses[c].local
    /\ UNCHANGED <<nextId, exported>>
    /\ SetAuths(new)

\* scraper.ts:647-648  this.auth = userAuth; this.authTrends = userAuth
LoginAssign(c, new) ==
    /\ ses' = [ses EXCEPT ![c] = End(c, "ok")]
    /\ auth' = ses[c].local
    /\ authTrends' = ses[c].local
    /\ UNCHANGED <<nextId, exported>>
    /\ SetAuths(new)

\* A step of the negotiation returns: the server ends it (success or a
\* reason to fail), or names the subtask whose input the client sends next.
LoginReturn(c) ==
    /\ ses[c].pc = "login"
    /\ \E ans \in LoginAnswers :
          LET id == ses[c].local IN
          CASE ans = "success" ->
                 LoginAssign(c, [auths EXCEPT ![id].jar =
                     JarPut(JarPut(@, AuthCookie(ses[c].acct)), Ct0Cookie)])
            [] ans = "neterror" -> LoginThrow(c, "TransportError")
            [] ans \in {"denied", "unknown"} -> LoginThrow(c, "LoginError")
            [] OTHER ->
                 IF HasInput(ses[c], ans)
                 THEN /\ ses[c].step < MaxSteps
                      /\ ses' = [ses EXCEPT
                                   ![c].step = @ + 1,
                                   ![c].reqs = Append(@,
                                       Req("login_subtask", id, TRUE, FALSE))]
                      /\ UNCHANGED <<auth, authTrends, nextId, exported>>
                      /\ SetAuths([auths EXCEPT ![id].jar = JarPut(@, AttCookie)])
                 ELSE LoginThrow(c, "LoginError")
    /\ UNCHANGED <<itVars, upVars, opVars>>

\* --------------------------------------------------------- Scraper.logout

\* auth.logout() of the authorizer id has begun: a user authorizer sends the
\* request that invalidates its identity on the server.
LogoutReqs(id) ==
    IF auths[id].kind = "user"
    THEN <<ApiReq("logout", id, auths[id])>>
    ELSE <<>>

\* auth.logout() has ended, whatever the server answered: the authorizer has
\* no token and an empty jar.
LoggedOut(rec) == [rec EXCEPT !.tok = "none", !.jar = <<>>]

\* scraper.ts:655  await this.auth.logout()
LogoutStart(c) ==
    /\ ses[c].pc = "idle"
    /\ nextId + 1 <= MaxAuths
    /\ ses' = [ses EXCEPT ![c] =
                 [Begin(c, "logout") EXCEPT
                     !.pc = "logout1", !.local = auth,
                     !.reqs = LogoutReqs(auth)]]
    /\ UNCHANGED <<auth, authTrends, nextId, exported>>
    /\ SetAuths(auths)
    /\ UNCHANGED <<itVars, upVars, opVars>>

\* scraper.ts:655-656  this.auth.logout() returns; await this.authTrends.logout()
Logout1Return(c) ==
    /\ ses[c].pc = "logout1"
    /\ LET new == [auths EXCEPT ![ses[c].local] = LoggedOut(@)] IN
       \E ok \in BOOLEAN :
          /\ ok \/ ses[c].reqs # <<>>
          /\ ses' = [ses EXCEPT
                       ![c].pc = "logout2",
                       ![c].local = authTrends,
                       ![c].srvFail = ~ok,
                       ![c].reqs = @ \o
                           (IF new[authTrends].kind = "user"
                            THEN <<ApiReq("logout", authTrends, new[authTrends])>>
                            ELSE <<>>)]
          /\ UNCHANGED <<auth, authTrends, nextId, exported>>
          /\ SetAuths(new)
    /\ UNCHANGED <<itVars, upVars, opVars>>

\* Variant: only this.auth is replaced.
UseGuestAuthOnlyAuth(new) ==
    /\ auth' = nextId
    /\ authTrends' = authTrends
    /\ nextId' = nextId + 2
    /\ auths' = [i \in ({auth', authTrends'} \cup {ses'[c].local : c \in Callers})
                       \ {0} |->
                    IF i = nextId THEN NewGuestAuth ELSE new[i]]

\* scraper.ts:124-127  useGuestAuth(): two new guest authorizers
UseGuestAuth(new) ==
    /\ auth' = nextId
    /\ authTrends' = nextId + 1
    /\ nextId' = nextId + 2
    /\ auths' = [i \in ({auth', authTrends'} \cup {ses'[c].local : c \in Callers})
                       \ {0} |->
                    IF i \in {nextId, nextId + 1} THEN NewGuestAuth ELSE new[i]]

\* scraper.ts:656-659  this.authTrends.logout() returns; useGuestAuth()
Logout2Return(c) ==
    /\ ses[c].pc = "logout2"
    /\ nextId + 1 <= MaxAuths
    /\ \E ok \in BOOLEAN :
          /\ ok \/ auths[ses[c].local].kind = "user"
          /\ ses' = [ses EXCEPT ![c] =
                       [End(c, "ok") EXCEPT !.srvFail = ses[c].srvFail \/ ~ok]]
    /\ UseGuestAuth([auths EXCEPT ![ses[c].local] = LoggedOut(@)])
    /\ exported' = exported
    /\ UNCHANGED <<itVars, upVars, opVars>>

\* ----------------------------------------------------- Scraper.setCookies

\* Variant: the new authorizer replaces this.auth only.
SetCookiesAssignAuthOnly(c, new) ==
    /\ ses' = [ses EXCEPT ![c] = End(c, "ok")]
    /\ auth' = ses[c].local
    /\ authTrends' = authTrends
    /\ UNCHANGED <<nextId, exported>>
    /\ SetAuths(new)

\* scraper.ts:684-685  this.auth = userAuth; this.authTrends = userAuth
SetCookiesAssign(c, new) ==
    /\ ses' = [ses EXCEPT ![c] = End(c, "ok")]
    /\ auth' = ses[c].local
    /\ authTrends' = ses[c].local
    /\ UNCHANGED <<nextId, exported>>
    /\ SetAuths(new)

\* scraper.ts:679-685  setCookies with one of the lists: a new user
\* authorizer; the first setCookie is awaited, or, for an empty list, the
\* authorizer is assigned at once.
SetCookiesWith(c, lists) ==
    /\ ses[c].pc = "idle"
    /\ nextId <= MaxAuths
    /\ \E cookies \in lists :
          IF cookies = <<>>
          THEN /\ ses' = [ses EXCEPT ![c] =
                            [Begin(c, "setCookies") EXCEPT !.out = "ok"]]
               /\ auth' = nextId
               /\ authTrends' = nextId
               /\ auths' = [i \in ({nextId} \cup {ses'[d].local : d \in Callers})
                                  \ {0} |->
                               IF i = nextId THEN NewUserAuth ELSE auths[i]]
          ELSE /\ ses' = [ses EXCEPT ![c] =
                            [Begin(c, "setCookies") EXCEPT
                                !.pc = "setcookies", !.local = nextId,
                                !.todo = cookies, !.given = cookies]]
               /\ UNCHANGED <<auth, authTrends>>
               /\ SetAuths(Ext(nextId, NewUserAuth))
    /\ nextId' = nextId + 1
    /\ exported' = exported
    /\ UNCHANGED <<itVars, upVars, opVars>>

\* scraper.ts:678  setCookies(cookies) with any cookie list
SetCookiesStart(c) == SetCookiesWith(c, CookieLists)

\* command.ts:33, 67  setCookies with the cookies the last getCookies()
\* returned
SetCookiesExported(c) == SetCookiesWith(c, {exported.cookies})

\* Variant: the authorizer filled so far is installed when a setCookie
\* throws.
SetCookieThrowInstalls(c) ==
    /\ ses' = [ses EXCEPT ![c] = End(c, "CookieError")]
    /\ auth' = ses[c].local
    /\ authTrends' = ses[c].local
    /\ UNCHANGED <<nextId, exported>>
    /\ SetAuths(auths)

\* scraper.ts:681  the awaited setCookie throws: the error leaves setCookies
\* before the assignments of 684-685.
SetCookieThrow(c) ==
    /\ ses' = [ses EXCEPT ![c] = End(c, "CookieError")]
    /\ UNCHANGED <<auth, authTrends, nextId, exported>>
    /\ SetAuths(auths)

\* scraper.ts:680-685  a setCookie returns: a cookie the jar does not accept
\* throws out of setCookies; after the last cookie the authorizer is
\* assigned.
SetCookieReturn(c) ==
    /\ ses[c].pc = "setcookies"
    /\ LET id == ses[c].local
           cookie == Head(ses[c].todo)
           new == [auths EXCEPT ![id].jar = JarPut(@, cookie)]
       IN  IF ~JarAccepts(cookie)
           THEN SetCookieThrow(c)
           ELSE IF Len(ses[c].todo) = 1
                THEN SetCookiesAssign(c, new)
                ELSE /\ ses' = [ses EXCEPT ![c].todo = Tail(@)]
                     /\ UNCHANGED <<auth, authTrends, nextId, exported>>
                     /\ SetAuths(new)
    /\ UNCHANGED <<itVars, upVars, opVars>>

\* --------------------------------------------------- Scraper.clearCookies

\* scraper.ts:692  await this.auth.cookieJar().removeAllCookies()
ClearCookiesStart(c) ==
    /\ ses[c].pc = "idle"
    /\ ses' = [ses EXCEPT ![c] =
                 [Begin(c, "clearCookies") EXCEPT !.pc = "clear1"]]
    /\ UNCHANGED <<auth, authTrends, nextId, exported>>
    /\ SetAuths([auths EXCEPT ![auth].jar = <<>>])
    /\ UNCHANGED <<itVars, upVars, opVars>>

\* scraper.ts:693  await this.authTrends.cookieJar().removeAllCookies()
ClearCookies1Return(c) ==
    /\ ses[c].pc = "clear1"
    /\ ses' = [ses EXCEPT ![c].pc = "clear2"]
    /\ UNCHANGED <<auth, authTrends, nextId, exported>>
    /\ SetAuths([auths EXCEPT ![authTrends].jar = <<>>])
    /\ UNCHANGED <<itVars, upVars, opVars>>

\* scraper.ts:693-694  clearCookies returns
ClearCookies2Return(c) ==
    /\ ses[c].pc = "clear2"
    /\ ses' = [ses EXCEPT ![c] = End(c, "ok")]
    /\ UNCHANGED <<auth, authTrends, nextId, exported>>
    /\ SetAuths(auths)
    /\ UNCHANGED <<itVars, upVars, opVars>>

\* ----------------------------------------------------- Scraper.getCookies

\* scraper.ts:666-672  getCookies() returns the cookies of authTrends' jar
GetCookiesCall ==
    /\ exported' = [cookies |-> GetCookies, user |-> IsLoggedIn,
                    from |-> authTrends]
    /\ UNCHANGED <<auth, authTrends, auths, nextId, ses>>
    /\ UNCHANGED <<itVars, upVars, opVars>>

\* ------------------------------------- operations that send a request

\* An operation passes this.auth (scraper.ts:135, 145, 172, ...) or
\* this.authTrends (scraper.ts:413) to a request; a guest authorizer
\* without a current guest token asks for one first.
ApiStart(c) ==
    /\ ses[c].pc = "idle"
    /\ \E id \in {auth, authTrends} :
          /\ ses' = [ses EXCEPT ![c] =
                [Begin(c, "api") EXCEPT
                    !.local = id,
                    !.pc = IF auths[id].kind = "guest" /\ auths[id].tok # "fresh"
                           THEN "api_token" ELSE "api",
                    !.reqs = IF auths[id].kind = "guest" /\ auths[id].tok # "fresh"
                             THEN <<Req("guest_token", id, FALSE, FALSE)>>
                             ELSE <<ApiReq("api", id, auths[id])>>]]
    /\ UNCHANGED <<auth, authTrends, nextId, exported>>
    /\ SetAuths(auths)
    /\ UNCHANGED <<itVars, upVars, opVars>>

\* The guest token request returns: the token is stored and the request is
\* sent with it, or the operation fails without sending its request.
ApiTokenReturn(c) ==
    /\ ses[c].pc = "api_token"
    /\ UNCHANGED <<auth, authTrends, nextId, exported>>
    /\ \/ /\ ses' = [ses EXCEPT ![c] = End(c, "AuthBootstrapError")]
          /\ SetAuths(auths)
       \/ LET new == [auths EXCEPT ![ses[c].local].tok = "fresh"] IN
          /\ ses' = [ses EXCEPT
                       ![c].pc = "api",
                       ![c].reqs = Append(@,
                           ApiReq("api", ses[c].local, new[ses[c].local]))]
          /\ SetAuths(new)
    /\ UNCHANGED <<itVars, upVars, opVars>>

\* The request returns.
ApiReturn(c) ==
    /\ ses[c].pc = "api"
    /\ \E ok \in BOOLEAN :
          ses' = [ses EXCEPT ![c] = End(c, IF ok THEN "ok" ELSE "TransportError")]
    /\ UNCHANGED <<auth, authTrends, nextId, exported>>
    /\ SetAuths(auths)
    /\ UNCHANGED <<itVars, upVars, opVars>>

\* Time passes: a guest token becomes stale.
TokenExpire ==
    /\ \E id \in DOMAIN auths :
          /\ auths[id].kind = "guest"
          /\ auths[id].tok = "fresh"
          /\ auths' = [auths EXCEPT ![id].tok = "stale"]
    /\ UNCHANGED <<auth, authTrends, nextId, ses, exported>>
    /\ UNCHANGED <<itVars, upVars, opVars>>

\* scraper.ts:114-117  the constructor: useGuestAuth()
InitSession ==
    /\ auth = 1
    /\ authTrends = 2
    /\ auths = [i \in {1, 2} |-> NewGuestAuth]
    /\ nextId = 3
    /\ ses = [c \in Callers |-> IdleCall]
    /\ exported = [cookies |-> <<>>, user |-> FALSE, from |-> 0]

\* The session calls of caller c.
SessionCall(c) ==
    \/ LoginStart(c)
    \/ LoginTokenReturn(c)
    \/ LoginReturn(c)
    \/ LogoutStart(c)
    \/ Logout1Return(c)
    \/ Logout2Return(c)
    \/ SetCookiesStart(c)
    \/ SetCookieReturn(c)
    \/ ClearCookiesStart(c)
    \/ ClearCookies1Return(c)
    \/ ClearCookies2Return(c)
    \/ ApiStart(c)
    \/ ApiTokenReturn(c)
    \/ ApiReturn(c)

\* One caller at a time issues session calls, each awaited before the next.
NextSession ==
    \/ SessionCall("a")
    \/ TokenExpire

\* The calls of caller c that take the session apart.
ClosingCall(c) ==
    \/ LogoutStart(c)
    \/ Logout1Return(c)
    \/ Logout2Return(c)
    \/ ClearCookiesStart(c)
    \/ ClearCookies1Return(c)
    \/ ClearCookies2Return(c)

\* Cookie lists kept from earlier sessions: none, and those of account A.
SavedCookies == {<<>>, <<AuthCookie("A"), Ct0Cookie>>}

\* scraper.ts:678  setCookies with a saved cookie list
SetCookiesSaved(c) == SetCookiesWith(c, SavedCookies)

\* The calls of caller c that install an identity.
OpeningCall(c) ==
    \/ LoginStart(c)
    \/ LoginTokenReturn(c)
    \/ LoginReturn(c)
    \/ SetCookiesSaved(c)
    \/ SetCookieReturn(c)

\* Two callers change the session of one Scraper without waiting for each
\* other: the Scraper has no lock, a call runs from await to await. One
\* caller logs in and imports saved cookies, the other logs out and clears.
NextConcurrent ==
    \/ OpeningCall("b")
    \/ ClosingCall("a")

\* One caller logs in, exports the session's cookies, logs out and imports
\* what was exported.
NextRoundTrip ==
    \/ LoginStart("a")
    \/ LoginTokenReturn("a")
    \/ LoginReturn("a")
    \/ LogoutStart("a")
    \/ Logout1Return("a")
    \/ Logout2Return("a")
    \/ SetCookiesExported("a")
    \/ SetCookieReturn("a")
    \/ GetCookiesCall

\* ============================================================== uploadMedia

\* Byte lengths of the modelled buffers: 0, and every k whole chunks plus
\* one byte, 2 MiB or a whole chunk (12 MiB = 2 chunks + 2 MiB).
MediaSizes ==
    {0} \cup { k * CHUNK_SIZE + d : k \in 0..(MaxChunks - 1),
                                   d \in {1, 2 * MiB, CHUNK_SIZE} }

\* scraper.ts:774  const chunks = isVideo ? Math.ceil(totalBytes / CHUNK_SIZE) : 1
Chunks(m) == IF m.isVideo THEN CeilDiv(m.totalBytes, CHUNK_SIZE) ELSE 1

UpReq(cmd, seg, start, end) ==
    [cmd |-> cmd, seg |-> seg, start |-> start, end |-> end, auth |-> auth]

\* Variant: the segment index counts from 1, as the progress message does.
AppendReqFromOne(m, i) ==
    UpReq("APPEND", i + 1, i * CHUNK_SIZE,
          Min(i * CHUNK_SIZE + CHUNK_SIZE, m.totalBytes))

\* scraper.ts:777-785  the APPEND request of loop index i
AppendReq(m, i) ==
    UpReq("APPEND", i, i * CHUNK_SIZE,
          Min(i * CHUNK_SIZE + CHUNK_SIZE, m.totalBytes))

\* Variant: the loop sends the APPEND of the segment before once more.
ContinueAppendResend(m, i) ==
    IF i < Chunks(m)
    THEN /\ upPc' = "append"
         /\ upLog' = Append(upLog, AppendReq(m, IF i > 0 THEN i - 1 ELSE 0))
    ELSE /\ upPc' = "finalize"
         /\ upLog' = Append(upLog, UpReq("FINALIZE", -1, 0, 0))

\* scraper.ts:776-822  after INIT or an APPEND has returned: the next APPEND
\* while i < chunks, then FINALIZE.
ContinueAppend(m, i) ==
    IF i < Chunks(m)
    THEN /\ upPc' = "append"
         /\ upLog' = Append(upLog, AppendReq(m, i))
    ELSE /\ upPc' = "finalize"
         /\ upLog' = Append(upLog, UpReq("FINALIZE", -1, 0, 0))

\* scraper.ts:738-761  uploadMedia up to the await of the INIT request
UploadStart ==
    /\ upPc = "idle"
    /\ \E bytes \in MediaSizes, isVideo \in BOOLEAN :
          upMedia' = [isVideo |-> isVideo, totalBytes |-> bytes]
    /\ upPc' = "init"
    /\ upLog' = <<UpReq("INIT", -1, 0, 0)>>
    /\ upInflight' = 1
    /\ upI' = 0
    /\ upAttempts' = 0
    /\ upWait' = -1
    /\ upOut' = "running"
    /\ upResps' = <<>>
    /\ upLastCa' = -1
    /\ upErrChunk' = -1
    /\ UNCHANGED <<sesVars, itVars, opVars>>

\* Variant: only the success flag of the INIT response is looked at.
InitOkAnyId(resp) == resp # "fail"

\* scraper.ts:763  the negation of
\* !initResponse.success || !initResponse.value.media_id_string
InitOk(resp) == resp = "ok"

\* scraper.ts:763-797  INIT returns; failure or a missing media_id_string
\* throws, otherwise the APPEND loop starts.
InitReturn ==
    /\ upPc = "init"
    /\ \E resp \in {"fail", "noid", "ok"} :
          /\ upResps' = Append(upResps, resp)
          /\ IF InitOk(resp)
             THEN /\ ContinueAppend(upMedia, 0)
                  /\ upInflight' = 1
                  /\ upOut' = upOut
             ELSE /\ upPc' = "failed"
                  /\ upOut' = "Failed to initialize media upload"
                  /\ upInflight' = 0
                  /\ upLog' = upLog
    /\ upI' = 0
    /\ UNCHANGED <<upMedia, upAttempts, upWait, upLastCa, upErrChunk>>
    /\ UNCHANGED <<sesVars, itVars, opVars>>

\* scraper.ts:801  the chunk number in
\* `Failed to append media chunk ${i + 1}/${chunks}`
ErrChunk(i) == i + 1

\* scraper.ts:799-822  an APPEND returns; failure throws, otherwise i++ and
\* the loop goes on.
AppendReturn ==
    /\ upPc = "append"
    /\ \E ok \in BOOLEAN :
          /\ upResps' = Append(upResps, IF ok THEN "ok" ELSE "fail")
          /\ IF ok
             THEN /\ ContinueAppend(upMedia, upI + 1)
                  /\ upI' = upI + 1
                  /\ upInflight' = 1
                  /\ upOut' = upOut
                  /\ upErrChunk' = upErrChunk
             ELSE /\ upPc' = "failed"
                  /\ upOut' = "Failed to append media chunk"
                  /\ upErrChunk' = ErrChunk(upI)
                  /\ upInflight' = 0
                  /\ upI' = upI
                  /\ upLog' = upLog
    /\ UNCHANGED <<upMedia, upAttempts, upWait, upLastCa>>
    /\ UNCHANGED <<sesVars, itVars, opVars>>

StatusReq == UpReq("STATUS", -1, 0, 0)

\* Variant: the poll loop is entered for every kind of media.
NeedsPollAnyMedia(m, resp) == resp = "processing"

\* scraper.ts:830  isVideo && finalizeResponse.value.processing_info
NeedsPoll(m, resp) == m.isVideo /\ resp = "processing"

\* scraper.ts:824-836  FINALIZE returns; a video whose response carries
\* processing_info enters checkMediaProcessingStatus (844-853).
FinalizeReturn ==
    /\ upPc = "finalize"
    /\ \E resp \in {"fail", "plain", "processing"} :
          /\ upResps' = Append(upResps, resp)
          /\ CASE resp = "fail" ->
                    /\ upPc' = "failed"
                    /\ upOut' = "Failed to finalize media upload"
                    /\ upInflight' = 0
                    /\ upLog' = upLog
               [] resp # "fail" /\ NeedsPoll(upMedia, resp) ->
                    /\ upPc' = "status"
                    /\ upLog' = Append(upLog, StatusReq)
                    /\ upInflight' = 1
                    /\ upOut' = upOut
               [] OTHER ->
                    /\ upPc' = "done"
                    /\ upOut' = "finalize response"
                    /\ upInflight' = 0
                    /\ upLog' = upLog
    /\ upAttempts' = 0
    /\ UNCHANGED <<upMedia, upI, upWait, upLastCa, upErrChunk>>
    /\ UNCHANGED <<sesVars, itVars, opVars>>

\* check_after_secs values of a STATUS response (-1: the field is absent)
CheckAfterValues == {-1, 0, 1, 7}

\* scraper.ts:874  (processingInfo.check_after_secs || 5)
WaitSecs(checkAfter) ==
    IF checkAfter = -1 \/ checkAfter = 0 THEN DefaultWaitSecs ELSE checkAfter

\* What a STATUS response is: the request failed, the response has no
\* processing_info, or its processing_info.state is succeeded, failed or
\* another one (pending, in_progress).
StatusResps == {"fail", "noinfo", "succeeded", "failed", "pending"}

\* Variant: the state failed is not looked at.
StatusOutcomeFailedPending(resp) ==
    CASE resp = "fail" -> "Failed to check media processing status"
      [] resp \in {"noinfo", "succeeded"} -> "status response"
      [] OTHER -> "wait"

\* scraper.ts:855-871  what the poll loop does with a STATUS response: throw,
\* return the response, or wait for the next poll.
StatusOutcome(resp) ==
    CASE resp = "fail" -> "Failed to check media processing status"
      [] resp \in {"noinfo", "succeeded"} -> "status response"
      [] resp = "failed" -> "Video processing failed"
      [] OTHER -> "wait"

\* scraper.ts:855-875  a STATUS poll returns
StatusReturn ==
    /\ upPc = "status"
    /\ \E resp \in StatusResps, ca \in CheckAfterValues :
          LET o == StatusOutcome(resp) IN
          /\ upResps' = Append(upResps, resp)
          /\ upLastCa' = IF resp \in {"fail", "noinfo"} THEN -1 ELSE ca
          /\ IF o = "wait"
             THEN /\ upPc' = "wait"
                  /\ upOut' = upOut
                  /\ upWait' = WaitSecs(ca)
             ELSE /\ upPc' = IF o = "status response" THEN "done" ELSE "failed"
                  /\ upOut' = o
                  /\ upWait' = upWait
    /\ upInflight' = 0
    /\ UNCHANGED <<upMedia, upI, upAttempts, upLog, upErrChunk>>
    /\ UNCHANGED <<sesVars, itVars, opVars>>

\* Variant: one more poll than maxAttempts.
PollCondInclusive(attempts) == attempts <= maxAttempts

\* scraper.ts:848  while (attempts < maxAttempts)
PollCond(attempts) == attempts < maxAttempts

\* scraper.ts:875-879 and 848-853  the timer fires: attempts++, then the next
\* poll while attempts < maxAttempts, otherwise the timeout error.
StatusTimer ==
    /\ upPc = "wait"
    /\ upAttempts' = upAttempts + 1
    /\ IF PollCond(upAttempts + 1)
       THEN /\ upPc' = "status"
            /\ upLog' = Append(upLog, StatusReq)
            /\ upInflight' = 1
            /\ upOut' = upOut
       ELSE /\ upPc' = "failed"
            /\ upOut' = "Video processing timed out"
            /\ upInflight' = 0
            /\ upLog' = upLog
    /\ UNCHANGED <<upMedia, upI, upWait, upResps, upLastCa, upErrChunk>>
    /\ UNCHANGED <<sesVars, itVars, opVars>>

\* The caller has the outcome; the Scraper is ready for the next call.
UploadReset ==
    /\ upPc \in {"done", "failed"}
    /\ upPc' = "idle"
    /\ upMedia' = [isVideo |-> FALSE, totalBytes |-> 0]
    /\ upI' = 0
    /\ upAttempts' = 0
    /\ upLog' = <<>>
    /\ upInflight' = 0
    /\ upWait' = -1
    /\ upOut' = "none"
    /\ upResps' = <<>>
    /\ upLastCa' = -1
    /\ upErrChunk' = -1
    /\ UNCHANGED <<sesVars, itVars, opVars>>

InitUpload ==
    /\ upPc = "idle"
    /\ upMedia = [isVideo |-> FALSE, totalBytes |-> 0]
    /\ upI = 0
    /\ upAttempts = 0
    /\ upLog = <<>>
    /\ upInflight = 0
    /\ upWait = -1
    /\ upOut = "none"
    /\ upResps = <<>>
    /\ upLastCa = -1
    /\ upErrChunk = -1

NextUpload ==
    \/ UploadStart
    \/ InitReturn
    \/ AppendReturn
    \/ FinalizeReturn
    \/ StatusReturn
    \/ StatusTimer
    \/ UploadReset

\* ================================================== getUserTweetsIterator

\* Caps of the modelled runs: 0..MaxCap, and one above the server page cap.
Caps == (0..MaxCap) \cup {PageCap + 1}

\* Lengths of the pages the server returns.
PageLens == {0, 1, 2}

\* scraper.ts:310-325  the count and cursor variables of a page request;
\* the cursor variable is set only for a truthy cursor (0: none).
FetchReq(maxTweets, cursor) ==
    [count |-> IF maxTweets > PageCap THEN PageCap ELSE maxTweets,
     cursor |-> cursor]

\* Variant: the loop is entered once more at the cap.
LoopCondInclusive(retrieved, max) == retrieved <= max

\* scraper.ts:385  while (retrievedTweets < maxTweets)
LoopCond(retrieved, max) == retrieved < max

\* Variant: the break comes one tweet late.
CapReachedLate(retrieved, max) == retrieved > max

\* scraper.ts:395  if (retrievedTweets >= maxTweets) break
CapReached(retrieved, max) == retrieved >= max

\* Variant: an empty next cursor does not end the loop.
CursorEmptyNever(c) == FALSE

\* scraper.ts:402  if (!cursor) break
CursorEmpty(c) == c = 0

\* scraper.ts:385-390  the head of the while loop: the next page request, or
\* the end of the generator.
LoopTop(retrieved, cursor) ==
    IF LoopCond(retrieved, itMax)
    THEN /\ Len(itFetches) <= MaxCursors + 1
         /\ itPc' = "fetching"
         /\ itFetches' = Append(itFetches, FetchReq(itMax - retrieved, cursor))
    ELSE /\ itPc' = "done"
         /\ itFetches' = itFetches

\* Variant: the next request is sent with the cursor of the request before.
AfterPageStaleCursor(retrieved, next) ==
    /\ itCursor' = next
    /\ itEmitted' = itEmitted
    /\ itIdx' = itIdx
    /\ IF CursorEmpty(next)
       THEN /\ itPc' = "done"
            /\ itFetches' = itFetches
       ELSE LoopTop(retrieved, itCursor)

\* scraper.ts:400-404  after the for loop: cursor = response.next, break on
\* a falsy cursor, otherwise back to the head of the loop.
AfterPage(retrieved, next) ==
    /\ itCursor' = next
    /\ itEmitted' = itEmitted
    /\ itIdx' = itIdx
    /\ IF CursorEmpty(next)
       THEN /\ itPc' = "done"
            /\ itFetches' = itFetches
       ELSE LoopTop(retrieved, next)

\* scraper.ts:392-393  the for loop at position idx of the page: yield the
\* tweet there, or leave the loop at the end of the page.
ForLoop(page, idx, retrieved, next) ==
    IF idx <= Len(page)
    THEN /\ itPc' = "suspended"
         /\ itEmitted' = Append(itEmitted, page[idx])
         /\ itIdx' = idx
         /\ itCursor' = itCursor
         /\ itFetches' = itFetches
    ELSE AfterPage(retrieved, next)

\* Variant: the call itself sends the first page request.
ItCreateEager ==
    /\ itPc = "idle"
    /\ \E cap \in Caps :
          /\ itMax' = cap
          /\ itFetches' = <<FetchReq(cap, 0)>>
    /\ itPc' = "fetching"
    /\ UNCHANGED <<itRetrieved, itCursor, itPage, itNext, itIdx, itEmitted,
                   srvNextId, srvLast, srvGiven, itFailedAt>>
    /\ UNCHANGED <<sesVars, upVars, opVars>>

\* scraper.ts:378-381  the call creates the generator; its body has not run.
ItCreate ==
    /\ itPc = "idle"
    /\ \E cap \in Caps : itMax' = cap
    /\ itPc' = "created"
    /\ UNCHANGED <<itRetrieved, itCursor, itPage, itNext, itIdx, itEmitted,
                   itFetches, srvNextId, srvLast, srvGiven,
                   itFailedAt>>
    /\ UNCHANGED <<sesVars, upVars, opVars>>

\* scraper.ts:382-390  the consumer's first next(): the body runs to its
\* first await.
PullFirst ==
    /\ itPc = "created"
    /\ LoopTop(0, 0)
    /\ UNCHANGED <<itMax, itRetrieved, itCursor, itPage, itNext, itIdx,
                   itEmitted, srvNextId, srvLast, srvGiven,
                   itFailedAt>>
    /\ UNCHANGED <<sesVars, upVars, opVars>>

\* Variant: a failed page request ends the run as an empty last page does.
OnFetchFailureSwallowed == "done"

\* scraper.ts:367-369  if (!res.success) throw res.err: the generator, which
\* catches nothing, ends with the error.
OnFetchFailure == "error"

\* scraper.ts:358-375 and 392-404  the page request returns: a failure is
\* thrown out of the generator, a page is iterated from its first tweet.
\* The server's page continues its stream of tweets, or starts again at the
\* last tweet of the previous page; its next cursor is empty, the previous
\* one again, or a new one.
FetchReturn ==
    /\ itPc = "fetching"
    /\ \/ /\ itPc' = OnFetchFailure
          /\ itFailedAt' = Len(itFetches)
          /\ UNCHANGED <<itRetrieved, itCursor, itPage, itNext, itIdx,
                         itEmitted, itFetches, srvNextId, srvLast, srvGiven>>
       \/ \E overlap \in BOOLEAN, len \in PageLens,
             next \in {0, srvLast, Len(itFetches)} :
             LET start == IF overlap /\ srvNextId > 1
                          THEN srvNextId - 1 ELSE srvNextId
                 page  == [j \in 1..len |-> start + j - 1]
             IN  /\ next # 0 => srvGiven < MaxCursors
                 /\ itPage' = page
                 /\ itNext' = next
                 /\ srvNextId' = IF start + len > srvNextId
                                 THEN start + len ELSE srvNextId
                 /\ srvLast' = next
                 /\ srvGiven' = IF next # 0 THEN srvGiven + 1 ELSE srvGiven
                 /\ ForLoop(page, 1, itRetrieved, next)
                 /\ itRetrieved' = itRetrieved
                 /\ itFailedAt' = itFailedAt
    /\ itMax' = itMax
    /\ UNCHANGED <<sesVars, upVars, opVars>>

\* scraper.ts:394-404  the consumer's next() resumes the generator after a
\* yield: retrievedTweets++, break at the cap, otherwise the next tweet.
PullNext ==
    /\ itPc = "suspended"
    /\ itRetrieved' = itRetrieved + 1
    /\ IF CapReached(itRetrieved + 1, itMax)
       THEN AfterPage(itRetrieved + 1, itNext)
       ELSE ForLoop(itPage, itIdx + 1, itRetrieved + 1, itNext)
    /\ UNCHANGED <<itMax, itPage, itNext, srvNextId, srvLast, srvGiven,
                   itFailedAt>>
    /\ UNCHANGED <<sesVars, upVars, opVars>>

\* The consumer stops before the end (return() of the generator).
ItAbandon ==
    /\ itPc \in {"created", "suspended"}
    /\ itPc' = "abandoned"
    /\ UNCHANGED <<itMax, itRetrieved, itCursor, itPage, itNext, itIdx,
                   itEmitted, itFetches, srvNextId, srvLast, srvGiven,
                   itFailedAt>>
    /\ UNCHANGED <<sesVars, upVars, opVars>>

InitPager ==
    /\ itPc = "idle"
    /\ itMax = 0
    /\ itRetrieved = 0
    /\ itCursor = 0
    /\ itPage = <<>>
    /\ itNext = 0
    /\ itIdx = 0
    /\ itEmitted = <<>>
    /\ itFetches = <<>>
    /\ srvNextId = 1
    /\ srvLast = 0
    /\ srvGiven = 0
    /\ itFailedAt = 0

\* The run is over; the next call starts a new generator and a new run.
ItReset ==
    /\ itPc \in {"done", "error", "abandoned"}
    /\ itPc' = "idle"
    /\ itMax' = 0
    /\ itRetrieved' = 0
    /\ itCursor' = 0
    /\ itPage' = <<>>
    /\ itNext' = 0
    /\ itIdx' = 0
    /\ itEmitted' = <<>>
    /\ itFetches' = <<>>
    /\ srvNextId' = 1
    /\ srvLast' = 0
    /\ srvGiven' = 0
    /\ itFailedAt' = 0
    /\ UNCHANGED <<sesVars, upVars, opVars>>

\* A run that the consumer pulls to its end.
NextPagerFull ==
    \/ ItCreate
    \/ PullFirst
    \/ FetchReturn
    \/ PullNext
    \/ ItReset

NextPager ==
    \/ NextPagerFull
    \/ ItAbandon

\* ===================================================== queries over tweets

\* A tweet: its id and the two flags the queries look at.
MkTweet(id, isRetweet, isReply) ==
    [id |-> id, isRetweet |-> isRetweet, isReply |-> isReply]

NoTweet == MkTweet(0, FALSE, FALSE)

\* Sequences of tweets in timeline order, the tweet at position i with id i.
Timelines ==
    UNION { { [i \in 1..n |-> MkTweet(i, f[i][1], f[i][2])] :
                f \in [1..n -> BOOLEAN \X BOOLEAN] } : n \in 0..MaxTweets }

\* A JavaScript value that is a boolean or a Promise of one.
Val(b) == [promise |-> FALSE, value |-> b]
PromiseOf(b) == [promise |-> TRUE, value |-> b]

\* The truthiness of such a value: a Promise is an object, and truthy.
Truthy(v) == v.promise \/ v.value

\* await v
Await(v) == Val(v.value)

\* part_000:299-301  TweetQuery: an object of key/value pairs, or a
\* predicate that returns a boolean or a Promise of one.
ObjectQueries ==
    { [isCallback |-> FALSE, options |-> o, fn |-> "none", async |-> FALSE] :
        o \in UNION { [K -> BOOLEAN] : K \in SUBSET {"isRetweet", "isReply"} } }

PredicateQueries ==
    { [isCallback |-> TRUE, options |-> <<>>, fn |-> f, async |-> a] :
        f \in {"retweets", "replies"}, a \in BOOLEAN }

Queries == ObjectQueries \cup PredicateQueries

\* query(tweet) for a predicate query
CallQuery(q, t) ==
    LET b == IF q.fn = "retweets" THEN t.isRetweet ELSE t.isReply
    IN  IF q.async THEN PromiseOf(b) ELSE Val(b)

\* part_000:574-579  checkTweetMatches
checkTweetMatches(tweet, options) ==
    \A k \in DOMAIN options : tweet[k] = options[k]

\* Variant: the result of the predicate is not awaited.
WhereMatchesNoAwait(q, t) ==
    IF q.isCallback THEN CallQuery(q, t)
    ELSE Val(checkTweetMatches(t, q.options))

\* part_000:545-547  matches of getTweetWhere:
\* isCallback ? await query(tweet) : checkTweetMatches(tweet, query)
WhereMatches(q, t) ==
    IF q.isCallback THEN Await(CallQuery(q, t))
    ELSE Val(checkTweetMatches(t, q.options))

\* part_000:566  matches of getTweetsWhere:
\* isCallback ? query(tweet) : checkTweetMatches(tweet, query)
AllWhereMatches(q, t) ==
    IF q.isCallback THEN CallQuery(q, t)
    ELSE Val(checkTweetMatches(t, q.options))

\* What an operation returns or throws.
NoOut == [kind |-> "none", tweet |-> NoTweet, list |-> <<>>, err |-> "",
          status |-> 0, body |-> ""]
OutTweet(t) == [NoOut EXCEPT !.kind = "tweet", !.tweet = t]
OutNull == [NoOut EXCEPT !.kind = "null"]
OutUndefined == [NoOut EXCEPT !.kind = "undefined"]
OutList(l) == [NoOut EXCEPT !.kind = "list", !.list = l]
OutThrow(e) == [NoOut EXCEPT !.kind = "throw", !.err = e]

NoQuery ==
    [isCallback |-> FALSE, options |-> <<>>, fn |-> "none", async |-> FALSE]

\* A request of an operation: what it asks for, the source and target it
\* names, and the account whose cookies the authorizer attaches to it.
OpReq(req, source, target, as) ==
    [req |-> req, source |-> source, target |-> target, as |-> as]

\* No operation has been called.
IdleOp ==
    [op |-> "none", pc |-> "idle", tweets |-> <<>>, query |-> NoQuery,
     pulled |-> 0, filtered |-> <<>>, incl |-> FALSE, max |-> 0, id |-> 0,
     res |-> "none", body |-> "", sent |-> <<>>, user |-> FALSE,
     cursor |-> "undefined", out |-> NoOut]

OpIdle == call.pc = "idle"

\* The caller has the outcome; the next operation can be called.
OpReset ==
    /\ call.pc = "done"
    /\ call' = IdleOp
    /\ UNCHANGED <<env, sesVars, itVars, upVars>>

\* The operation ends with the outcome out.
OpEnd(c, out) == [c EXCEPT !.pc = "done", !.out = out]

\* part_000:538-543, 557-563  getTweetWhere / getTweetsWhere are called with
\* a sequence of tweets and a query; nothing is pulled yet.
WhereStart ==
    /\ OpIdle
    /\ \E op \in {"getTweetWhere", "getTweetsWhere"},
          tweets \in Timelines, q \in Queries :
          call' = [IdleOp EXCEPT !.op = op, !.pc = "loop",
                                 !.tweets = tweets, !.query = q]
    /\ UNCHANGED <<env, sesVars, itVars, upVars>>

\* part_000:544-554, 564-571  one turn of the for await loop: the next tweet
\* is pulled, or the sequence has ended.
WherePull ==
    /\ call.pc = "loop"
    /\ IF call.pulled = Len(call.tweets)
       THEN call' = OpEnd(call, IF call.op = "getTweetsWhere"
                                THEN OutList(call.filtered) ELSE OutNull)
       ELSE LET tweet == call.tweets[call.pulled + 1]
                c == [call EXCEPT !.pulled = @ + 1]
            IN  IF call.op = "getTweetsWhere"
                THEN call' = IF ~Truthy(AllWhereMatches(call.query, tweet))
                             THEN c
                             ELSE [c EXCEPT !.filtered = Append(@, tweet)]
                ELSE call' = IF Truthy(WhereMatches(call.query, tweet))
                             THEN OpEnd(c, OutTweet(tweet))
                             ELSE c
    /\ UNCHANGED <<env, sesVars, itVars, upVars>>

\* The caps getLatestTweet is called with: 1, the ones above it, and the
\* default.
LatestCaps == (1..MaxTweets) \cup {PageCap}

\* getTweets(user, max): the first max tweets of the user's timeline
TimelinePrefix(tweets, max) == SubSeq(tweets, 1, Min(max, Len(tweets)))

\* part_000:581-593  getLatestTweet: for max = 1 the first entry of the
\* timeline, otherwise getTweetWhere(timeline, { isRetweet: includeRetweets })
LatestStart ==
    /\ OpIdle
    /\ \E tweets \in Timelines, includeRetweets \in BOOLEAN,
          max \in LatestCaps :
          LET timeline == TimelinePrefix(tweets, max)
              c == [IdleOp EXCEPT !.op = "getLatestTweet",
                                  !.tweets = timeline,
                                  !.incl = includeRetweets, !.max = max]
          IN  call' =
                IF max = 1
                THEN OpEnd([c EXCEPT !.pulled = Min(1, Len(timeline))],
                           IF timeline = <<>> THEN OutUndefined
                           ELSE OutTweet(timeline[1]))
                ELSE [c EXCEPT !.pc = "loop",
                               !.query = [NoQuery EXCEPT !.options =
                                   [k \in {"isRetweet"} |-> includeRetweets]]]
    /\ UNCHANGED <<env, sesVars, itVars, upVars>>

\* ------------------------------------------------------------- getTweet

\* Variant: the first tweet of the conversation is returned.
GetTweetFindFirst(tweets, id) ==
    IF tweets = <<>> THEN OutNull ELSE OutTweet(tweets[1])

\* part_000:620  tweets.find((tweet) => tweet.id === id) ?? null
GetTweetFind(tweets, id) ==
    LET at == {i \in 1..Len(tweets) : tweets[i].id = id}
    IN  IF at = {} THEN OutNull
        ELSE OutTweet(tweets[CHOOSE i \in at : \A j \in at : i <= j])

\* part_000:599-609  getTweet(id, auth) sends the tweet detail request
GetTweetStart ==
    /\ OpIdle
    /\ \E id \in 1..(MaxTweets + 1) :
          call' = [IdleOp EXCEPT !.op = "getTweet", !.pc = "req", !.id = id,
                                 !.sent = <<OpReq("TweetDetail", "", "", "")>>]
    /\ UNCHANGED <<env, sesVars, itVars, upVars>>

\* part_000:611-620  the request returns: a failure is thrown, a response
\* without value gives null, otherwise the flattened conversation is
\* searched.
GetTweetReturn ==
    /\ call.pc = "req"
    /\ call.op = "getTweet"
    /\ \/ call' = OpEnd([call EXCEPT !.res = "fail"],
                        OutThrow("TransportError"))
       \/ call' = OpEnd([call EXCEPT !.res = "novalue"], OutNull)
       \/ \E tweets \in Timelines :
             call' = OpEnd([call EXCEPT !.res = "value", !.tweets = tweets],
                           GetTweetFind(tweets, call.id))
    /\ UNCHANGED <<env, sesVars, itVars, upVars>>

\* ------------------------- sendTweet, likeTweet, retweet and quoteTweet

WriteOps == {"sendTweet", "likeTweet", "retweet", "quoteTweet"}

\* Decoded bodies of the responses to a write.
Bodies == {"{}", "{data}"}

\* new Response(JSON.stringify(response.value), { status: 200, ... })
OutResponse(body) ==
    [NoOut EXCEPT !.kind = "Response", !.status = 200, !.body = body]

\* Variant: a failure is answered with an empty Response.
WriteResultDefault(res, body) ==
    IF res = "fail" THEN OutResponse("{}") ELSE OutResponse(body)

\* scraper.ts:499-510, 902-909, 991-998, 1063-1072
\* if (!response.success) throw response.err; return new Response(...)
WriteResult(res, body) ==
    IF res = "fail" THEN OutThrow("TransportError") ELSE OutResponse(body)

\* scraper.ts:446-497, 882-900, 971-989, 1024-1061  the operation sends its
\* one request
WriteStart ==
    /\ OpIdle
    /\ \E op \in WriteOps :
          call' = [IdleOp EXCEPT !.op = op, !.pc = "req",
                                 !.sent = <<OpReq(op, "", "", "")>>]
    /\ UNCHANGED <<env, sesVars, itVars, upVars>>

\* The request of the write returns.
WriteReturn ==
    /\ call.pc = "req"
    /\ call.op \in WriteOps
    /\ \E res \in {"fail", "ok"}, body \in Bodies :
          /\ res = "fail" => body = "{}"
          /\ call' = OpEnd([call EXCEPT !.res = res, !.body = body],
                           WriteResult(res, body))
    /\ UNCHANGED <<env, sesVars, itVars, upVars>>

\* ------------------------- isLoggedIn, followUser, isFollowing, liked tweets

\* The account of the cookies an authorizer attaches to its requests.
AcctOf(rec) ==
    IF \E i \in 1..Len(rec.jar) : rec.jar[i].key = "auth_token"
    THEN (CHOOSE c \in {rec.jar[i] : i \in 1..Len(rec.jar)} :
              c.key = "auth_token").value
    ELSE "none"

\* The account the operations are called about.
Target == "T"

OutBool(b) == [NoOut EXCEPT !.kind = "bool", !.body = IF b THEN "true" ELSE "false"]

\* process.env.TWITTER_USERNAME is set by whoever runs in the process.
SetEnv ==
    /\ OpIdle
    /\ \E name \in Accounts \cup {"none"} :
          /\ name # env
          /\ env' = name
    /\ UNCHANGED <<call, sesVars, itVars, upVars>>

\* Variant: a Scraper that is not logged in is given new guest authorizers.
IsLoggedInCallResets ==
    /\ OpIdle
    /\ nextId + 1 <= MaxAuths
    /\ call' = OpEnd([IdleOp EXCEPT !.op = "isLoggedIn", !.user = IsLoggedIn],
                     OutBool(IsLoggedIn))
    /\ UNCHANGED <<ses, exported, env, itVars, upVars>>
    /\ IF IsLoggedIn
       THEN UNCHANGED <<auth, authTrends, auths, nextId>>
       ELSE UseGuestAuth(auths)

\* scraper.ts:624-628  isLoggedIn()
IsLoggedInCall ==
    /\ OpIdle
    /\ call' = OpEnd([IdleOp EXCEPT !.op = "isLoggedIn", !.user = IsLoggedIn],
                     OutBool(IsLoggedIn))
    /\ UNCHANGED <<env, sesVars, itVars, upVars>>

FollowOps == {"followUser", "isFollowing"}

\* Variant: the user id is looked up before the login check.
FollowGuardLate(op, loggedIn) ==
    [pc |-> "lookup", out |-> NoOut,
     sent |-> <<OpReq("UserByScreenName", "", Target, AcctOf(auths[auth]))>>]

\* scraper.ts:914-919, 1082-1087  if (!(await this.isLoggedIn())) throw ...;
\* otherwise the user id of username is looked up
FollowGuard(op, loggedIn) ==
    IF ~loggedIn
    THEN [pc |-> "done",
          out |-> OutThrow(IF op = "followUser"
                           THEN "Must be logged in to follow users"
                           ELSE "Must be logged in to check following status"),
          sent |-> <<>>]
    ELSE [pc |-> "lookup", out |-> NoOut,
          sent |-> <<OpReq("UserByScreenName", "", Target, AcctOf(auths[auth]))>>]

\* scraper.ts:912-919, 1080-1087  followUser / isFollowing are called
FollowStart ==
    /\ OpIdle
    /\ \E op \in FollowOps :
          LET g == FollowGuard(op, IsLoggedIn)
          IN  call' = [IdleOp EXCEPT !.op = op, !.user = IsLoggedIn,
                                     !.pc = g.pc, !.out = g.out,
                                     !.sent = g.sent]
    /\ UNCHANGED <<env, sesVars, itVars, upVars>>

\* scraper.ts:1094  const myUsername = process.env.TWITTER_USERNAME
MyUsername == env

\* scraper.ts:921-946, 1088-1095  the lookup of username returns: followUser
\* sends the follow request, isFollowing looks up the id of myUsername
FollowLookupReturn ==
    /\ call.pc = "lookup"
    /\ \E ok \in BOOLEAN :
          call' =
            IF ~ok
            THEN OpEnd([call EXCEPT !.res = "fail"],
                       OutThrow("Could not find user with username"))
            ELSE IF call.op = "followUser"
                 THEN [call EXCEPT !.pc = "req", !.sent = Append(@,
                          OpReq("friendships/create", "", Target,
                                AcctOf(auths[auth])))]
                 ELSE [call EXCEPT !.pc = "lookup_me", !.sent = Append(@,
                          OpReq("UserByScreenName", "", MyUsername,
                                AcctOf(auths[auth])))]
    /\ UNCHANGED <<env, sesVars, itVars, upVars>>

\* scraper.ts:1096-1114  the lookup of myUsername returns (it finds a user
\* only for the name of an account): the relationship from that user to
\* username is asked for
FollowMeReturn ==
    /\ call.pc = "lookup_me"
    /\ LET me == call.sent[Len(call.sent)].target IN
       \E ok \in BOOLEAN :
          /\ ok => me \in Accounts
          /\ call' =
               IF ~ok
               THEN OpEnd([call EXCEPT !.res = "fail"],
                          OutThrow("Could not get logged in user ID"))
               ELSE [call EXCEPT !.pc = "req", !.sent = Append(@,
                        OpReq("friendships/show", me, Target,
                              AcctOf(auths[auth])))]
    /\ UNCHANGED <<env, sesVars, itVars, upVars>>

\* scraper.ts:948-958, 1116-1120  the friendship request returns
FollowReturn ==
    /\ call.pc = "req"
    /\ call.op \in FollowOps
    /\ \E res \in {"fail", "ok"}, following \in BOOLEAN :
          /\ (res = "fail" \/ call.op = "followUser") => following
          /\ call' = OpEnd([call EXCEPT !.res = res],
                IF res = "fail" THEN OutThrow("TransportError")
                ELSE IF call.op = "followUser" THEN OutResponse("{data}")
                ELSE OutBool(following))
    /\ UNCHANGED <<env, sesVars, itVars, upVars>>

\* auth.isLoggedIn() returns a Promise (scraper.ts:626 awaits it)
AuthIsLoggedInAsync(id) == PromiseOf(AuthIsLoggedIn(id))

\* part_000:509  if (!auth.isLoggedIn())
LikedGuard(id) == ~Truthy(AuthIsLoggedInAsync(id))

\* part_000:503-527  fetchLikedTweets(userId, maxTweets, cursor, auth) with
\* the Scraper's authorizer
LikedStart ==
    /\ OpIdle
    /\ call' =
          IF LikedGuard(auth)
          THEN OpEnd([IdleOp EXCEPT !.op = "fetchLikedTweets",
                                    !.user = AuthIsLoggedIn(auth)],
                     OutThrow("Scraper is not logged-in for fetching liked tweets."))
          ELSE [IdleOp EXCEPT !.op = "fetchLikedTweets", !.pc = "req",
                              !.user = AuthIsLoggedIn(auth),
                              !.sent = <<OpReq("Likes", "", Target,
                                               AcctOf(auths[auth]))>>]
    /\ UNCHANGED <<env, sesVars, itVars, upVars>>

\* part_000:527-535  the request for the liked tweets returns
LikedReturn ==
    /\ call.pc = "req"
    /\ call.op = "fetchLikedTweets"
    /\ \/ call' = OpEnd([call EXCEPT !.res = "fail"],
                        OutThrow("TransportError"))
       \/ \E tweets \in {t \in Timelines : Len(t) <= 1} :
             call' = OpEnd([call EXCEPT !.res = "value", !.tweets = tweets],
                           OutList(tweets))
    /\ UNCHANGED <<env, sesVars, itVars, upVars>>

\* Logins and logouts of one caller, and between them the operations that
\* look at the login state, one call at a time.
NextGuarded ==
    \/ OpIdle /\ LoginStart("a")
    \/ LoginTokenReturn("a")
    \/ LoginReturn("a")
    \/ OpIdle /\ LogoutStart("a")
    \/ Logout1Return("a")
    \/ Logout2Return("a")
    \/ ses["a"].pc = "idle" /\ SetEnv
    \/ ses["a"].pc = "idle" /\ IsLoggedInCall
    \/ ses["a"].pc = "idle" /\ FollowStart
    \/ FollowLookupReturn
    \/ FollowMeReturn
    \/ FollowReturn
    \/ ses["a"].pc = "idle" /\ LikedStart
    \/ LikedReturn
    \/ OpReset

\* ------------------ fetchTweets, fetchTweetsAndReplies, fetchListTweets

\* part_000:349-350  the page cap of the tweets-and-replies timeline
RepliesPageCap == 40

PageFns == {"fetchTweets", "fetchTweetsAndReplies", "fetchListTweets"}

\* The cursor arguments: undefined, the empty string, a cursor of the server.
NoCursor == "undefined"
CursorArgs == {NoCursor, "", "c1"}

\* The maxTweets arguments: small ones, and the page caps and one above.
MaxTweetsArgs ==
    (0..MaxCap) \cup
    {RepliesPageCap, RepliesPageCap + 1, PageCap, PageCap + 1}

\* Variant: one page cap for every timeline.
ServerPageCapUniform(fn) == PageCap

\* part_000:318, 349, 423  the cap in `if (maxTweets > cap) maxTweets = cap`
ServerPageCap(fn) ==
    IF fn = "fetchTweetsAndReplies" THEN RepliesPageCap ELSE PageCap

\* part_000:327, 359, 432  cursor != null && cursor != ''
CursorGiven(cursor) == cursor # NoCursor /\ cursor # ""

\* part_000:318-329, 349-361, 423-434  the variables of the page request
PageReq(fn, maxTweets, cursor) ==
    [fn |-> fn,
     count |-> IF maxTweets > ServerPageCap(fn)
               THEN ServerPageCap(fn) ELSE maxTweets,
     hasCursor |-> CursorGiven(cursor),
     cursor |-> IF CursorGiven(cursor) THEN cursor ELSE NoCursor]

\* part_000:312-334, 343-366, 417-439  a page function is called and sends
\* its request.
PageFetchStart ==
    /\ OpIdle
    /\ \E fn \in PageFns, maxTweets \in MaxTweetsArgs, cursor \in CursorArgs :
          call' = [IdleOp EXCEPT !.op = fn, !.pc = "req", !.max = maxTweets,
                                 !.cursor = cursor,
                                 !.sent = <<PageReq(fn, maxTweets, cursor)>>]
    /\ UNCHANGED <<env, sesVars, itVars, upVars>>

\* part_000:336-340, 368-372, 441-445  the request returns: a failure is
\* thrown, a timeline is parsed and returned.
PageFetchReturn ==
    /\ call.pc = "req"
    /\ call.op \in PageFns
    /\ \E res \in {"fail", "ok"} :
          call' = OpEnd([call EXCEPT !.res = res],
                        IF res = "fail" THEN OutThrow("TransportError")
                        ELSE OutList(<<>>))
    /\ UNCHANGED <<env, sesVars, itVars, upVars>>

\* Single page requests, one call at a time.
NextPageFetch ==
    \/ PageFetchStart
    \/ PageFetchReturn
    \/ OpReset

InitOps ==
    /\ call = IdleOp
    /\ env = "none"

\* The operations that read and write tweets, one call at a time.
NextOps ==
    \/ WhereStart
    \/ LatestStart
    \/ WherePull
    \/ GetTweetStart
    \/ GetTweetReturn
    \/ WriteStart
    \/ WriteReturn
    \/ OpReset

Init ==
    /\ InitSession
    /\ InitPager
    /\ InitUpload
    /\ InitOps

\* Every call of the Scraper, interleaved.
Next ==
    \/ NextSession
    \/ GetCookiesCall
    \/ SetCookiesExported("a")
    \/ NextPager
    \/ NextUpload

Spec == Init /\ [][Next]_vars

SpecSession == Init /\ [][NextSession]_vars

SpecOps == Init /\ [][NextOps]_vars

SpecGuarded == Init /\ [][NextGuarded]_vars

SpecRoundTrip == Init /\ [][NextRoundTrip]_vars

SpecConcurrent == Init /\ [][NextConcurrent]_vars

SpecUpload == Init /\ [][NextUpload]_vars

SpecPager == Init /\ [][NextPager]_vars

\* Every request returns and the consumer keeps pulling.
SpecPagerLive == Init /\ [][NextPagerFull]_vars /\ WF_vars(NextPagerFull)

\* Every request of the upload returns and every timer fires.
SpecUploadLive == Init /\ [][NextUpload]_vars /\ WF_vars(NextUpload)

\* Uploads and timeline runs of one Scraper, one after the other: neither
\* writes what the other reads.
NextTransfers ==
    \/ itPc = "idle" /\ NextUpload
    \/ upPc = "idle" /\ NextPager

SpecTransfers == Init /\ [][NextTransfers]_vars

\* One caller logs in while the other sends requests of other operations,
\* neither waiting for the other.
NextLoginRace ==
    \/ LoginStart("a")
    \/ LoginTokenReturn("a")
    \/ LoginReturn("a")
    \/ ApiStart("b")
    \/ ApiTokenReturn("b")
    \/ ApiReturn("b")

SpecLoginRace == Init /\ [][NextLoginRace]_vars

\* An upload is waiting for a response and the session is still the one it
\* started with.
UploadInFlight ==
    /\ upPc \in {"init", "append", "finalize", "status", "wait"}
    /\ auth = upLog[1].auth

\* One caller uploads media; the other imports saved cookies while an upload
\* is in flight, once per upload, neither waiting for the other.
NextUploadRace ==
    \/ NextUpload
    \/ UploadInFlight /\ SetCookiesSaved("b")
    \/ SetCookieReturn("b")

SpecUploadRace == Init /\ [][NextUploadRace]_vars

\* Timeline runs and single page requests, one after the other.
NextPages ==
    \/ OpIdle /\ NextPager
    \/ itPc = "idle" /\ NextPageFetch

SpecPages == Init /\ [][NextPages]_vars

\* ================================================================ the CLI

\* command.ts:78  fs.existsSync(cookies.json): the file is there once
\* loginAndSaveCookies has written it.
CookieFileExists == exported.from # 0

\* The command of input line c: its 'line' event has not fired yet; it has
\* run to its end.
CliNotRead(c) == ses[c].op = "none"
CliDone(c) == ses[c].op = "api" /\ ses[c].pc = "idle"

\* command.ts:596-597, 291-292, 76-87  the 'line' event of a send-tweet
\* line: executeCommand calls ensureAuthenticated, which loads the cookie
\* file when it exists (loadCookies, 48-67) and logs in otherwise
\* (loginAndSaveCookies, 23-30).
CliLine(c) ==
    /\ CliNotRead(c)
    /\ IF CookieFileExists THEN SetCookiesExported(c) ELSE LoginStart(c)

\* command.ts:33-39  after a login that returned: getCookies() and the
\* write of cookies.json.
CliSaveCookies(c) ==
    /\ ses[c].op = "login" /\ ses[c].pc = "idle" /\ ses[c].out = "ok"
    /\ exported' = [cookies |-> GetCookies, user |-> IsLoggedIn,
                    from |-> authTrends]
    /\ ses' = [ses EXCEPT ![c].op = "loginAndSaveCookies"]
    /\ UNCHANGED <<auth, authTrends, nextId>>
    /\ SetAuths(auths)
    /\ UNCHANGED <<itVars, upVars, opVars>>

\* command.ts:76-88  ensureAuthenticated has returned: the cookies were
\* loaded or the error of loadCookies was caught and logged (70-72); the
\* login's cookies were saved or the error of the login was caught and
\* logged (42-44).
CliEnsured(c) ==
    /\ ses[c].pc = "idle"
    /\ \/ ses[c].op = "setCookies"
       \/ ses[c].op = "login" /\ ses[c].out # "ok"
       \/ ses[c].op = "loginAndSaveCookies"

\* command.ts:293-298, 97 and scraper.ts:446-497  the command goes on to
\* scraper.sendTweet, whose request is sent with this.auth.
CliSendTweet(c) ==
    /\ CliEnsured(c)
    /\ ApiStart(c)
    /\ ses'[c].local = auth

\* The steps of the command of line c.
CliCommand(c) ==
    \/ CliLine(c)
    \/ LoginTokenReturn(c)
    \/ LoginReturn(c)
    \/ SetCookieReturn(c)
    \/ CliSaveCookies(c)
    \/ CliSendTweet(c)
    \/ ApiTokenReturn(c)
    \/ ApiReturn(c)

\* command.ts:598  the commands of the lines have printed their results;
\* the user enters the next lines.
CliNextLines(lines) ==
    /\ \A c \in lines : CliDone(c)
    /\ ses' = [c \in Callers |-> IF c \in lines THEN IdleCall ELSE ses[c]]
    /\ UNCHANGED <<auth, authTrends, nextId, exported>>
    /\ SetAuths(auths)
    /\ UNCHANGED <<itVars, upVars, opVars>>

\* The user enters a line when the command before has printed its result.
NextCli ==
    \/ CliCommand("a")
    \/ CliNextLines({"a"})

SpecCli == Init /\ [][NextCli]_vars

\* command.ts:596-599  rl.on('line', async ...): the 'line' events fire in
\* input order, each starts its handler, and nothing waits for the handler
\* of the line before.
NextCliLines ==
    \/ CliCommand("a")
    \/ ~CliNotRead("a") /\ CliCommand("b")
    \/ CliNextLines(Callers)

SpecCliLines == Init /\ [][NextCliLines]_vars

\* ================================================================== claims

\* ---- C1: a video upload of N > 0 bytes sends INIT, then the APPENDs of
\* segment_index 0..k-1 for k = ceil(N / 5 MiB) in increasing order, then
\* FINALIZE, and STATUS polls only after that; a request is sent only when
\* the previous one has returned, and a call that got past FINALIZE has sent
\* all of them.
C1_ChunkCount(n) ==
    CHOOSE k \in 0..(MaxChunks + 1) :
        (k - 1) * CHUNK_SIZE < n /\ n <= k * CHUNK_SIZE

C1_UploadOrder ==
    (upPc # "idle" /\ upMedia.isVideo /\ upMedia.totalBytes > 0) =>
        LET k == C1_ChunkCount(upMedia.totalBytes)
        IN  /\ upInflight <= 1
            /\ \A j \in 1..Len(upLog) :
                  /\ j = 1 => upLog[j].cmd = "INIT"
                  /\ (2 <= j /\ j <= k + 1) =>
                        upLog[j].cmd = "APPEND" /\ upLog[j].seg = j - 2
                  /\ j = k + 2 => upLog[j].cmd = "FINALIZE"
                  /\ j > k + 2 => upLog[j].cmd = "STATUS"
            /\ upPc \in {"status", "wait", "done"} => Len(upLog) >= k + 2
            /\ (\E j \in 1..Len(upLog) : upLog[j].cmd = "STATUS") =>
                  upOut # "Failed to finalize media upload"

\* A 12 MiB video has been uploaded with the appends 0, 1, 2.
C1_Witness ==
    /\ upPc = "done"
    /\ upMedia.isVideo
    /\ upMedia.totalBytes = 12 * MiB
    /\ Len(upLog) >= 5
    /\ upLog[2].seg = 0 /\ upLog[3].seg = 1 /\ upLog[4].seg = 2
    /\ upLog[5].cmd = "FINALIZE"

\* ---- C2: when Scraper.login fails, auth and authTrends are the authorizers
\* they were before the call (a guest session stays a guest session, an
\* authenticated one stays authenticated), the negotiation was started only
\* once, and the authorizer of the failed attempt is not in use; a login in
\* progress negotiates with a new authorizer that holds no cookies when it
\* starts.
C2_LoginFailureLeavesSession ==
    \A c \in Callers :
        /\ (ses[c].op = "login" /\ ses[c].pc = "idle" /\ ses[c].out # "ok") =>
              /\ auth = ses[c].before.auth
              /\ authTrends = ses[c].before.authTrends
              /\ IsLoggedIn = ses[c].before.user
              /\ ses[c].out \in {"AuthBootstrapError", "TransportError",
                                 "LoginError"}
              /\ Cardinality({i \in 1..Len(ses[c].reqs) :
                     ses[c].reqs[i].purpose = "login_init"}) <= 1
              /\ \A i \in 1..Len(ses[c].reqs) :
                     ses[c].reqs[i].auth \notin {auth, authTrends}
        /\ ses[c].pc = "login_token" =>
              /\ ses[c].local = nextId - 1
              /\ \A id \in DOMAIN auths : id <= ses[c].local
              /\ ses[c].local \notin {auth, authTrends}
              /\ auths[ses[c].local].jar = <<>>
              /\ ses[c].step = 0

\* A login of an authenticated session has failed in the middle of the
\* negotiation.
C2_Witness ==
    /\ ses["a"].op = "login"
    /\ ses["a"].pc = "idle"
    /\ ses["a"].out = "LoginError"
    /\ ses["a"].before.user
    /\ Len(ses["a"].reqs) >= 3

\* ---- C3: after logout() of an authenticated session, whatever the server
\* answered to the invalidation requests, the call has succeeded and the
\* session is as a new Scraper's: two new guest authorizers, no cookie
\* returned by getCookies().
C3_LogoutEndsFreshGuest ==
    \A c \in Callers :
        (ses[c].op = "logout" /\ ses[c].pc = "idle" /\ ses[c].before.user) =>
            /\ ses[c].out = "ok"
            /\ IsFresh
            /\ ~IsLoggedIn
            /\ GetCookies = <<>>
            /\ {auth, authTrends} \cap
                   {ses[c].before.auth, ses[c].before.authTrends} = {}

\* An authenticated session has been logged out although the server-side
\* invalidation failed.
C3_Witness ==
    /\ ses["a"].op = "logout"
    /\ ses["a"].pc = "idle"
    /\ ses["a"].before.user
    /\ ses["a"].srvFail

C5_SetCookiesReplacesIdentity ==
    \A c \in Callers :
        (ses[c].op = "setCookies" /\ ses[c].pc = "idle" /\ ses[c].out = "ok") =>
            LET jar == auths[auth].jar
                C == ses[c].given
            IN  /\ auth = authTrends
                /\ auth \notin {ses[c].before.auth, ses[c].before.authTrends}
                /\ auths[auth].kind = "user"
                /\ \A j \in 1..Len(jar) : \E i \in 1..Len(C) : jar[j] = C[i]
                /\ \A i \in 1..Len(C) :
                      \E j \in 1..Len(jar) :
                          /\ SameKey(jar[j], C[i])
                          /\ \/ jar[j] = C[i]
                             \/ \E k \in (i + 1)..Len(C) : SameKey(C[k], C[i])
                /\ ses[c].reqs = <<>>

\* An authenticated session has imported a cookie list.
C5_Witness ==
    /\ ses["a"].op = "setCookies"
    /\ ses["a"].pc = "idle"
    /\ ses["a"].out = "ok"
    /\ ses["a"].before.user
    /\ Len(ses["a"].given) = 2
    /\ Len(auths[auth].jar) = 2

\* ---- C6: every request other than the one that asks for a guest token
\* carries a current guest token or the cookies of an authenticated
\* identity.
C6_RequestsCarryCredentials ==
    \A c \in Callers :
        \A i \in 1..Len(ses[c].reqs) :
            ses[c].reqs[i].purpose # "guest_token" =>
                ses[c].reqs[i].guestTok \/ ses[c].reqs[i].authCookie

\* ---- C7: a run that is pulled to its end, against a server that
\* eventually returns an empty next cursor, ends (normally or with the error
\* of a failed page request).
C7_PaginationTerminates == (itPc = "created") ~> (itPc \in {"done", "error"})

\* A run has ended on the server's empty next cursor, after more than one
\* page request and below its cap.
C7_Witness ==
    /\ itPc = "done"
    /\ itNext = 0
    /\ Len(itFetches) >= 2
    /\ Len(itEmitted) < itMax

\* ---- C8: a run never emits more than cap items.
C8_CapRespected == Len(itEmitted) <= itMax

\* A run has ended at its cap in the middle of a page.
C8_Witness ==
    /\ itPc = "done"
    /\ itMax > 0
    /\ Len(itEmitted) = itMax
    /\ itIdx < Len(itPage)

C10_CapZeroNoFetch ==
    (itPc # "idle" /\ itMax = 0) =>
        /\ itEmitted = <<>>
        /\ itFetches = <<>>
        /\ itPc \in {"created", "done", "abandoned"}

\* A run with cap 0 has been pulled and has ended.
C10_Witness == itPc = "done" /\ itMax = 0

C12_PullBased ==
    /\ [](itPc = "created" => itFetches = <<>> /\ itEmitted = <<>>)
    /\ [][/\ Len(itFetches') > Len(itFetches) =>
               /\ itPc \in {"created", "suspended", "fetching"}
               /\ itPc' = "fetching"
               /\ Len(itFetches') = Len(itFetches) + 1
               /\ itEmitted' = itEmitted
          /\ Len(itEmitted') > Len(itEmitted) =>
               /\ Len(itEmitted') = Len(itEmitted) + 1
               /\ itPc' = "suspended"
               /\ itFetches' = itFetches
          /\ itPc = "abandoned" =>
               /\ itPc' \in {"abandoned", "idle"}
               /\ itPc' = "abandoned" =>
                     itFetches' = itFetches /\ itEmitted' = itEmitted
         ]_vars

\* The consumer has stopped after the first tweet of a page of two, with a
\* next cursor at hand: one page request has been sent.
C12_Witness ==
    /\ itPc = "abandoned"
    /\ Len(itEmitted) = 1
    /\ Len(itPage) = 2
    /\ itNext # 0
    /\ itMax > 1
    /\ Len(itFetches) = 1

\* ---- C13: a run whose page request has failed is in the error state with
\* that request as its last one, and from there nothing is yielded and
\* nothing is fetched; the failure itself changes nothing of what was
\* yielded before it.
C13_FetchFailureEndsRun ==
    /\ [](itFailedAt # 0 =>
             /\ itPc = "error"
             /\ itFailedAt = Len(itFetches))
    /\ [][/\ itFailedAt' # itFailedAt /\ itFailedAt' # 0 =>
               /\ itPc = "fetching"
               /\ itEmitted' = itEmitted
               /\ itFetches' = itFetches
          /\ itPc = "error" =>
               /\ itPc' \in {"error", "idle"}
               /\ itPc' = "error" =>
                     itFetches' = itFetches /\ itEmitted' = itEmitted
         ]_vars

\* The second page request of a run has failed after a tweet was yielded.
C13_Witness ==
    /\ itPc = "error"
    /\ itFailedAt = 2
    /\ Len(itEmitted) >= 1
    /\ itRetrieved < itMax

\* Positions of upLog that hold a STATUS request.
StatusPolls == {j \in 1..Len(upLog) : upLog[j].cmd = "STATUS"}

\* ---- C14: a call sends at most maxAttempts (10) STATUS requests, and a
\* poll loop whose requests all return ends.
C14_PollBounded ==
    /\ [](Cardinality(StatusPolls) <= maxAttempts)
    /\ (upPc \in {"status", "wait"}) ~> (upPc \in {"done", "failed"})

\* The poll loop has timed out after ten polls.
C14_Witness ==
    /\ upPc = "failed"
    /\ upOut = "Video processing timed out"
    /\ Cardinality(StatusPolls) = maxAttempts
    /\ upAttempts = maxAttempts

\* ---- C15: a poll loop that has ended has one outcome. It returned the
\* STATUS response only if the last response had the state succeeded or no
\* processing_info; it threw the processing-failed error exactly when a
\* response had the state failed; it threw the timeout error exactly when
\* ten polls all returned a non-terminal state; a response with the state
\* failed ends the call at once and never in success.
C15_PollOutcome ==
    LET polled == {j \in StatusPolls : j <= Len(upResps)} IN
    /\ \A j \in polled :
          upResps[j] = "failed" =>
              /\ upPc = "failed"
              /\ upOut = "Video processing failed"
              /\ j = Len(upLog)
    /\ (upPc \in {"done", "failed"} /\ StatusPolls # {}) =>
          /\ upOut \in {"status response", "Video processing failed",
                         "Video processing timed out",
                         "Failed to check media processing status"}
          /\ (upPc = "done") <=> (upOut = "status response")
          /\ upPc = "done" =>
                upResps[Len(upResps)] \in {"succeeded", "noinfo"}
          /\ (upOut = "Video processing failed") <=>
                (\E j \in polled : upResps[j] = "failed")
          /\ (upOut = "Video processing timed out") <=>
                /\ Cardinality(polled) = maxAttempts
                /\ \A j \in polled : upResps[j] = "pending"

\* The third poll has reported the state failed.
C15_Witness ==
    /\ upPc = "failed"
    /\ upOut = "Video processing failed"
    /\ Cardinality(StatusPolls) = 3
    /\ upResps[Len(upResps)] = "failed"

\* ---- C16: when the INIT request fails or its response has no
\* media_id_string, the call fails with the INIT error and INIT is the only
\* request it has sent.
C16_InitFailureStops ==
    (Len(upResps) >= 1 /\ upResps[1] \in {"fail", "noid"}) =>
        /\ upPc = "failed"
        /\ upOut = "Failed to initialize media upload"
        /\ Len(upLog) = 1
        /\ upLog[1].cmd = "INIT"

\* The INIT response of a video upload of three chunks had no media id.
C16_Witness ==
    /\ upPc = "failed"
    /\ upMedia.isVideo
    /\ upMedia.totalBytes > 2 * CHUNK_SIZE
    /\ upResps = <<"noid">>

\* ---- C17: when an APPEND fails it is the last request of the call, and
\* the chunk number in the error is the segment_index the request was sent
\* with.
C17_AppendErrorIndex ==
    upErrChunk # -1 =>
        /\ upPc = "failed"
        /\ upLog[Len(upLog)].cmd = "APPEND"
        /\ upResps[Len(upLog)] = "fail"
        /\ upErrChunk = upLog[Len(upLog)].seg

\* ---- C18: a FINALIZE response without processing_info ends the call in
\* success with that response and no STATUS request; an image upload never
\* sends a STATUS request, and its FINALIZE response, whatever it carries,
\* is what the call returns.
C18_NoPollWithoutProcessing ==
    /\ \A j \in 1..Len(upResps) :
          (upLog[j].cmd = "FINALIZE" /\ upResps[j] # "fail"
             /\ (upResps[j] = "plain" \/ ~upMedia.isVideo)) =>
              /\ upPc = "done"
              /\ upOut = "finalize response"
              /\ j = Len(upLog)
    /\ ~upMedia.isVideo => StatusPolls = {}

\* An image upload whose FINALIZE response carried processing_info has
\* returned.
C18_Witness ==
    /\ upPc = "done"
    /\ ~upMedia.isVideo
    /\ upMedia.totalBytes > 0
    /\ upResps[Len(upResps)] = "processing"
    /\ Len(upLog) = 3

\* ---- C19: the wait before the next poll is check_after_secs of the last
\* STATUS response, and 5 seconds only when that response has none.
C19_WaitHonoursCheckAfter ==
    upPc = "wait" =>
        upWait = (IF upLastCa = -1 THEN DefaultWaitSecs ELSE upLastCa)

\* ---- C20: no request is repeated outside the poll loop. In upLog, INIT,
\* FINALIZE and the APPEND of each segment_index occur at most once; a
\* request that failed (or a STATUS response with the state failed) is the
\* last request of its call; a page request that failed is the last one of
\* its run.
C20_NoSilentRetry ==
    /\ \A j, k \in 1..Len(upLog) :
          (j < k /\ upLog[j].cmd # "STATUS") =>
              ~(upLog[j].cmd = upLog[k].cmd /\ upLog[j].seg = upLog[k].seg)
    /\ \A j \in 1..Len(upResps) :
          upResps[j] \in {"fail", "failed"} =>
              /\ j = Len(upLog)
              /\ upPc = "failed"
    /\ itFailedAt # 0 =>
          /\ itFailedAt = Len(itFetches)
          /\ itPc = "error"

\* The APPEND of segment 1 of a three-chunk video has failed.
C20_Witness ==
    /\ upPc = "failed"
    /\ upMedia.isVideo
    /\ Chunks(upMedia) = 3
    /\ upResps = <<"ok", "ok", "fail">>
    /\ Len(upLog) = 3

\* What a query resolves to for a tweet: for an object query whether every
\* listed key has the given value, for a predicate the boolean it returns or
\* its Promise resolves to.
QueryHolds(q, t) ==
    IF q.isCallback
    THEN (IF q.fn = "retweets" THEN t.isRetweet ELSE t.isReply)
    ELSE \A k \in DOMAIN q.options : t[k] = q.options[k]

\* The positions of the tweets of the call that its query resolves to true
\* for.
MatchAt == {i \in 1..Len(call.tweets) : QueryHolds(call.query, call.tweets[i])}

\* ---- C24: getTweetsWhere returns, in sequence order, exactly the tweets
\* its query resolves to true for.
C24_AllMatching ==
    (call.op = "getTweetsWhere" /\ call.pc = "done") =>
        LET Test(t) == QueryHolds(call.query, t)
        IN  /\ call.out.kind = "list"
            /\ call.out.list = SelectSeq(call.tweets, Test)

\* ---- C25: getTweetWhere returns the first tweet of the sequence that the
\* query resolves to true for and has pulled the sequence up to that tweet
\* and no further; it returns null when it has pulled the whole sequence
\* without a match; while it runs, no tweet pulled so far matches.
C25_FirstMatching ==
    call.op = "getTweetWhere" =>
        /\ call.pc = "loop" => \A i \in MatchAt : i > call.pulled
        /\ (call.pc = "done" /\ MatchAt # {}) =>
              LET k == CHOOSE i \in MatchAt : \A j \in MatchAt : i <= j
              IN  /\ call.out = OutTweet(call.tweets[k])
                  /\ call.pulled = k
        /\ (call.pc = "done" /\ MatchAt = {}) =>
              /\ call.out = OutNull
              /\ call.pulled = Len(call.tweets)

\* An asynchronous predicate has matched the second of three tweets.
C25_Witness ==
    /\ call.op = "getTweetWhere"
    /\ call.pc = "done"
    /\ call.query.isCallback /\ call.query.async
    /\ Len(call.tweets) = 3
    /\ call.out.kind = "tweet"
    /\ call.out.tweet.id = 2
    /\ QueryHolds(call.query, call.tweets[3])

\* ---- C26: getLatestTweet returns the first tweet of the timeline that is
\* eligible, a retweet being eligible only with includeRetweets; with none
\* it returns no tweet.
C26_LatestEligible ==
    (call.op = "getLatestTweet" /\ call.pc = "done") =>
        LET eligible == {i \in 1..Len(call.tweets) :
                            ~call.tweets[i].isRetweet \/ call.incl}
        IN  IF eligible = {}
            THEN call.out.kind \in {"null", "undefined"}
            ELSE /\ call.out.kind = "tweet"
                 /\ call.out.tweet =
                      call.tweets[CHOOSE i \in eligible :
                                     \A j \in eligible : i <= j]

C23_WriteFailureThrows ==
    (call.op \in WriteOps /\ call.pc = "done") =>
        /\ Len(call.sent) = 1
        /\ call.res = "fail" => call.out = OutThrow("TransportError")
        /\ call.out.kind \in {"throw", "Response"}
        /\ call.out.kind = "Response" =>
              /\ call.res = "ok"
              /\ call.out.status = 200
              /\ call.out.body = call.body

\* The request of a quoteTweet has failed.
C23_Witness ==
    /\ call.op = "quoteTweet"
    /\ call.pc = "done"
    /\ call.res = "fail"
    /\ call.out.kind = "throw"

\* ---- C27: the relationship isFollowing asks for has as its source the
\* account the request is sent as, the one the Scraper is logged in as.
C27_SourceIsSessionUser ==
    \A i \in 1..Len(call.sent) :
        call.sent[i].req = "friendships/show" =>
            call.sent[i].source = call.sent[i].as

\* ---- C28: isLoggedIn() changes nothing of the session (auth, authTrends,
\* the authorizers and their cookie jars); it returns true only when auth
\* and authTrends are user authorizers, and false for a Scraper as
\* constructed or as logout leaves it.
C28_IsLoggedInPure ==
    /\ [][(call'.op = "isLoggedIn" /\ call.op # "isLoggedIn") =>
             UNCHANGED <<auth, authTrends, auths, nextId, ses>>]_vars
    /\ []((call.op = "isLoggedIn" /\ call.pc = "done") =>
             /\ call.out.kind = "bool"
             /\ call.out.body = "true" =>
                   /\ auths[auth].kind = "user"
                   /\ auths[authTrends].kind = "user"
             /\ IsFresh => call.out.body = "false"
             /\ (ses["a"].op = "logout" /\ ses["a"].pc = "idle") =>
                   call.out.body = "false")

\* isLoggedIn() has returned false after a logout of an authenticated
\* session.
C28_Witness ==
    /\ call.op = "isLoggedIn"
    /\ call.pc = "done"
    /\ call.out.body = "false"
    /\ ses["a"].op = "logout"
    /\ ses["a"].pc = "idle"
    /\ ses["a"].before.user

\* ---- C29: followUser and isFollowing called while isLoggedIn() is false
\* throw their 'Must be logged in' error and have sent no request.
C29_FollowNeedsLogin ==
    (call.op \in FollowOps /\ ~call.user) =>
        /\ call.pc = "done"
        /\ call.out.kind = "throw"
        /\ call.out.err = (IF call.op = "followUser"
                           THEN "Must be logged in to follow users"
                           ELSE "Must be logged in to check following status")
        /\ call.sent = <<>>

\* isFollowing has been refused after a logout.
C29_Witness ==
    /\ call.op = "isFollowing"
    /\ call.pc = "done"
    /\ ~call.user
    /\ call.out.kind = "throw"
    /\ ses["a"].op = "logout"
    /\ ses["a"].before.user

\* ---- C30: fetchLikedTweets given an authorizer that is not logged in
\* throws its 'not logged-in' error and sends no request.
C30_LikedNeedsLogin ==
    (call.op = "fetchLikedTweets" /\ ~call.user) =>
        /\ call.pc = "done"
        /\ call.out =
              OutThrow("Scraper is not logged-in for fetching liked tweets.")
        /\ call.sent = <<>>

\* ---- C21: session calls in flight together behave as if run one after
\* the other; in particular the authorizer a logout acts on after its first
\* await is the one that was authTrends when the logout was called, not one
\* another call has installed since.
C21_CallsSerialized ==
    \A c \in Callers :
        ses[c].pc = "logout2" =>
            ses[c].local = ses[c].before.authTrends

\* ---- C31: when an uploadMedia call has reached FINALIZE, for images as
\* well as videos, the byte ranges of its APPEND requests start at offset 0,
\* each begins where the one before ended, and the last one ends at the
\* total_bytes declared in INIT.
C31_AppendRangesCoverBuffer ==
    upPc \in {"finalize", "status", "wait", "done"} =>
        LET apps == SelectSeq(upLog, LAMBDA r : r.cmd = "APPEND")
        IN  /\ \A j \in 1..Len(apps) :
                  /\ apps[j].start <= apps[j].end
                  /\ apps[j].start = (IF j = 1 THEN 0 ELSE apps[j - 1].end)
            /\ (IF Len(apps) = 0 THEN 0 ELSE apps[Len(apps)].end)
                   = upMedia.totalBytes

\* ---- C32: between the steps of the calls, auth and authTrends are either
\* two distinct guest authorizers, or one and the same user authorizer (and
\* so one cookie jar); never one guest and one user authorizer, never two
\* different user authorizers, never one guest authorizer in both places.
C32_GuestPairOrSharedUser ==
    \/ /\ auths[auth].kind = "guest"
       /\ auths[authTrends].kind = "guest"
       /\ auth # authTrends
    \/ /\ auths[auth].kind = "user"
       /\ auth = authTrends

\* A login has succeeded while a logout of the other caller was suspended:
\* the session is one user authorizer in both places.
C32_Witness ==
    /\ ses["b"].op = "login" /\ ses["b"].pc = "idle" /\ ses["b"].out = "ok"
    /\ ses["a"].op = "logout" /\ ses["a"].pc # "idle"
    /\ auths[auth].kind = "user"
    /\ auth = authTrends
    /\ ses["b"].before.auth # ses["b"].before.authTrends

\* ---- C33: setCookies is all-or-nothing. A setCookies call that fails on
\* one of its cookies leaves auth and authTrends the authorizers they were
\* before the call, and no step of a setCookies call other than its
\* successful end changes auth, authTrends or what getCookies() returns.
C33_SetCookiesAllOrNothing ==
    /\ [](\A c \in Callers :
            (ses[c].op = "setCookies" /\ ses[c].pc = "idle"
                /\ ses[c].out = "CookieError") =>
                /\ auth = ses[c].before.auth
                /\ authTrends = ses[c].before.authTrends)
    /\ [][\A c \in Callers :
            (/\ ses'[c].op = "setCookies"
             /\ ses[c].pc = "setcookies" \/ ses'[c].pc = "setcookies"
             /\ ~(ses'[c].pc = "idle" /\ ses'[c].out = "ok")) =>
                /\ auth' = auth
                /\ authTrends' = authTrends
                /\ GetCookies' = GetCookies]_vars

\* An authenticated session whose setCookies failed on its second cookie,
\* the first one having been stored in the new authorizer.
C33_Witness ==
    /\ ses["a"].op = "setCookies" /\ ses["a"].pc = "idle"
    /\ ses["a"].out = "CookieError"
    /\ Len(ses["a"].given) = 2
    /\ ses["a"].given[1] = AuthCookie("B")
    /\ ~JarAccepts(ses["a"].given[2])
    /\ ses["a"].before.user
    /\ GetCookies = <<AuthCookie("A"), Ct0Cookie>>

\* ---- C34: every page request asks for min(page cap, items the cap still
\* allows): a page function asks for at most 200 items (40 for tweets and
\* replies) and at most the maxTweets it was given, the iterator asks for at
\* most what its cap leaves after the tweets emitted so far; the cursor
\* variable is set only for a cursor that is neither absent nor empty.
C34_PageRequestSize ==
    /\ []((call.op \in PageFns /\ call.pc # "idle") =>
            LET r == call.sent[1]
                cap == IF call.op = "fetchTweetsAndReplies" THEN 40 ELSE 200
            IN  /\ r.count = Min(cap, call.max)
                /\ r.hasCursor <=> call.cursor \notin {"undefined", ""}
                /\ r.hasCursor => r.cursor = call.cursor)
    /\ [][Len(itFetches') = Len(itFetches) + 1 =>
            LET r == itFetches'[Len(itFetches')]
            IN  /\ r.count = Min(200, itMax' - Len(itEmitted'))
                /\ r.count >= 1
                /\ r.cursor # 0 => (r.cursor = itCursor' /\ Len(itFetches) >= 1)
         ]_vars

\* The second page of a run with cap 3 is asked for with a cursor and
\* count 1, two tweets having been emitted.
C34_Witness ==
    /\ itPc = "fetching"
    /\ itMax = 3
    /\ Len(itEmitted) = 2
    /\ Len(itFetches) = 2
    /\ itFetches[2].count = 1
    /\ itFetches[2].cursor # 0

\* ---- C35: the first page of a run is fetched with no cursor, each later
\* page with the next cursor the page before returned, and the tweets are
\* emitted page after page, within a page in the order the server gave.
C35_CursorChain ==
    /\ [](Len(itFetches) >= 1 => itFetches[1].cursor = 0)
    /\ [][(Len(itFetches') = Len(itFetches) + 1 /\ Len(itFetches) >= 1) =>
            /\ itNext' # 0
            /\ itFetches'[Len(itFetches')].cursor = itNext'
         ]_vars
    /\ [][Len(itEmitted') = Len(itEmitted) + 1 =>
            /\ itEmitted' = Append(itEmitted, itPage'[itIdx'])
            /\ itIdx' = (IF itPc = "fetching" THEN 1 ELSE itIdx + 1)
            /\ itPc # "fetching" => itPage' = itPage
         ]_vars

\* The first tweet of the second page has been emitted after both tweets of
\* the first; the second page was fetched with the first page's next cursor.
C35_Witness ==
    /\ itPc = "suspended"
    /\ Len(itFetches) = 2
    /\ itFetches[1].cursor = 0
    /\ itFetches[2].cursor = 1
    /\ Len(itEmitted) = 3
    /\ itIdx = 1

C36_InNegotiation(c) == ses[c].pc \in {"login_token", "login"}

\* ---- C36: while a login is suspended in its negotiation, the authorizer
\* it negotiates with is neither auth nor authTrends and no request of
\* another operation carries it: auth and authTrends are the authorizers
\* from before the login, an operation called in that time signs its
\* requests with one of them, and an operation called earlier goes on with
\* the authorizer it was called with, which is older than the login's.
C36_NegotiationInvisible ==
    /\ [](\A c \in Callers : C36_InNegotiation(c) =>
            /\ ses[c].local \notin {auth, authTrends}
            /\ auth = ses[c].before.auth
            /\ authTrends = ses[c].before.authTrends
            /\ \A d \in Callers \ {c} : \A j \in 1..Len(ses[d].reqs) :
                  ses[d].reqs[j].auth # ses[c].local)
    /\ [][\A c \in Callers : \A d \in Callers \ {c} :
            (/\ C36_InNegotiation(c)
             /\ ses'[d].reqs # ses[d].reqs
             /\ ses'[d].reqs # <<>>) =>
                LET r == ses'[d].reqs[Len(ses'[d].reqs)]
                IN  /\ r.auth < ses[c].local
                    /\ ses[d].pc = "idle" =>
                          r.auth \in {ses[c].before.auth,
                                      ses[c].before.authTrends}
         ]_vars

\* A second login is past its first step, its authorizer already holding a
\* cookie of the flow, while a request of another operation is in flight
\* with the cookies of the first login.
C36_Witness ==
    /\ ses["a"].pc = "login" /\ ses["a"].step >= 1
    /\ ses["a"].before.user
    /\ auths[ses["a"].local].jar # <<>>
    /\ ses["b"].pc = "api"
    /\ ses["b"].reqs[Len(ses["b"].reqs)].auth = auth
    /\ ses["b"].reqs[Len(ses["b"].reqs)].authCookie

\* ---- C37: all requests of one uploadMedia call (INIT, the APPENDs,
\* FINALIZE, the STATUS polls) are sent with one authorizer, the one that
\* was current when the call started, whatever call changes the session
\* while the upload waits for a response.
C37_UploadKeepsAuthorizer ==
    \A j \in 1..Len(upLog) : upLog[j].auth = upLog[1].auth

\* ---- C38: in the CLI, a command that called ensureAuthenticated sends its
\* scraper request from an authenticated session: isLoggedIn() holds when
\* the request of sendTweet is sent, and the request carries the auth_token
\* cookie.
C38_EnsuredIsAuthenticated ==
    \A c \in Callers :
        ses[c].op = "api" =>
            /\ ses[c].before.user
            /\ \A j \in 1..Len(ses[c].reqs) :
                  ses[c].reqs[j].purpose = "api" => ses[c].reqs[j].authCookie

\* ---- C39: in the CLI, the commands of successive input lines run one at a
\* time in input order: when the command of the second line has begun, the
\* command of the first line has run to its end.
C39_LinesOneAtATime ==
    ~CliNotRead("b") => CliDone("a")

====
